---- MODULE Spec2Model ----
(***************************************************************************)
(* godepmon: a dependency walker (DepWalker.List / visitAll /              *)
(* isCandidate), a process supervisor (commander.Start / Terminate /       *)
(* forceKill), a debouncing file watcher (watcher.Watch / Close / monitor  *)
(* / process / end) and the orchestrator loop (run / runOnce).             *)
(*                                                                         *)
(* Strings that the code compares (package paths, file paths) are          *)
(* sequences of byte values, so that strings.HasPrefix and sort.Strings    *)
(* are computed as Go computes them.                                       *)
(***************************************************************************)
EXTENDS Integers, Sequences, FiniteSets, TLC

VARIABLES
    \* ---- DepWalker (part_001) ----
    dw,             \* the DepWalker fields: module, moduleWithSlash, includeExternalDeps
    goMod,          \* the module path go.mod declares (what gomod.Module() returns)
    loaded,         \* what packages.Load returns: roots, Imports, GoFiles
    imports,        \* the visited map of List, as its set of keys (PkgPath)
    stack,          \* the call stack of visitAll: one frame per active call, the pkgs still to range over
    deps,           \* the slice List returns
    listpc,         \* where List is
    admitted,       \* per PkgPath: how many times "imports[pkg.PkgPath] = pkg" ran
    traversed,      \* per PkgPath: how many times visitAll was called on its Imports
    steps,          \* how many steps List has taken
    \* ---- commander (commander.go) ----
    command,        \* c.command, a byte string, fixed by NewCommander
    cmd,            \* c.cmd: whether it is set, its Process (a pid, 0 for nil) and its ProcessState
    cmu,            \* c.mu: the thread holding it, or "none"
    procs,          \* the child processes spawned so far, by pid: running, exited or killed
    sent,           \* every kill(2) made: the pid of the group, the signal, the caller, the outcome
    call,           \* per thread: the commander call it is in, where it is, and what it did so far
    startCalls,     \* how many Start calls have been made on the commander
    termCalls,      \* how many Terminate calls have been made on the commander
    lastDone,       \* the last call that returned: its op and its result
    \* ---- watcher (watch.go, and its later revision part_003) ----
    rev,            \* which revision of the watcher runs: "watch.go" or "part_003"
    w,              \* the watcher instances made by NewWatcher: watcher, timer, done, closed, mu
    fsn,            \* the fsnotify watchers made: Close called or not, Events/Errors closed or not
    chans,          \* the completion channels made, unbuffered: closed or not
    timers,         \* the timers made by time.AfterFunc: owner, state, time left, where its callback is
    mons,           \* the monitor goroutines: owner, where each is, the fsnotify watcher it selects on, what its select got last
    wcalls,         \* the Watch calls: on which instance, where each is, the channel it receives on, result
    ccalls,         \* the Close calls: on which instance, where each is, result
    run,            \* the orchestrator: where its main loop is, the channel it receives on, its watcher, its signal handler
    prog,           \* "running", or how the program ended (a panic, os.Exit)
    evs,            \* per instance: qualifying events its monitor loops received
    sinceEv,        \* ticks since the last qualifying event was received, up to Delay
    burst,          \* "none": no qualifying event yet; "ok": each came less than Delay after the one before; "broken"; "off": not measured
    writes,         \* the values sent on completion channels: channel, receiver, sinceEv then
    \* ---- command line (main.go) ----
    args,           \* the positional arguments cobra hands to run, each a byte string
    getwd,          \* what os.Getwd returns: a directory, or "error"
    stat,           \* what os.Stat says of the path argument: "dir", "file", "notexist" or "error"
    path,           \* the watch root processArgs returned
    argpc           \* "args": processArgs has not run; "done": it returned; "idle": not modelled

depVars == <<dw, goMod, loaded, imports, stack, deps, listpc, admitted, traversed, steps>>
cmdVars == <<command, cmd, cmu, procs, sent, call, startCalls, termCalls, lastDone>>

watchVars == <<rev, w, fsn, chans, timers, mons, wcalls, ccalls, run, prog, evs, sinceEv, burst, writes>>

argVars == <<args, getwd, stat, path, argpc>>

vars == <<depVars, cmdVars, watchVars, argVars>>

----------------------------------------------------------------------------
(* Strings as byte sequences *)

\* "a", "a/s", "ab", "x": the module's root package, a sub-package, a sibling
\* whose name merely starts with the module's name, and an external package.
PkgA  == <<97>>
PkgAS == <<97, 47, 115>>
PkgAB == <<97, 98>>
PkgX  == <<120>>
PkgPaths == {PkgA, PkgAS, PkgAB, PkgX}

\* File paths "1", "10", "2", "3", "4" (their byte order is not their numeric order).
File1  == <<49>>
File10 == <<49, 48>>
File2  == <<50>>
File3  == <<51>>
File4  == <<52>>

\* The largest number of import edges of the graphs explored.
MaxEdges == 5

\* The largest number of root packages packages.Load returns.
MaxRoots == 2

Range(s) == {s[i] : i \in 1..Len(s)}

\* All orders of a finite set, as sequences without repetition.
Perms(S) == {s \in [1..Cardinality(S) -> S] : Range(s) = S}

\* strings.HasPrefix(s, prefix)
HasPrefix(s, prefix) ==
    /\ Len(s) >= Len(prefix)
    /\ SubSeq(s, 1, Len(prefix)) = prefix

\* Go's string "<": byte-wise lexicographic order.
RECURSIVE StrLess(_, _)
StrLess(s, t) ==
    IF Len(t) = 0 THEN FALSE
    ELSE IF Len(s) = 0 THEN TRUE
    ELSE IF Head(s) < Head(t) THEN TRUE
    ELSE IF Head(s) > Head(t) THEN FALSE
    ELSE StrLess(Tail(s), Tail(t))

\* Insert string x into the sorted sequence s, before the first larger element.
RECURSIVE InsertSorted(_, _)
InsertSorted(x, s) ==
    IF Len(s) = 0 THEN <<x>>
    ELSE IF StrLess(x, Head(s)) THEN <<x>> \o s
    ELSE <<Head(s)>> \o InsertSorted(x, Tail(s))

\* sort.Strings(s): the elements of s, all of them, in increasing order.
RECURSIVE SortStrings(_)
SortStrings(s) ==
    IF Len(s) = 0 THEN <<>>
    ELSE InsertSorted(Head(s), SortStrings(Tail(s)))

----------------------------------------------------------------------------
(* DepWalker *)

\* The file lists of the loader's packages: all distinct; one file listed by two
\* packages; one file listed twice by one package.
GoFilesLayouts ==
    { (PkgA :> <<File2, File1>>  @@ PkgAS :> <<File10>> @@ PkgAB :> <<File3>> @@ PkgX :> <<File4>>),
      (PkgA :> <<File2, File1>>  @@ PkgAS :> <<File1>>  @@ PkgAB :> <<File3>> @@ PkgX :> <<File4>>),
      (PkgA :> <<File1, File1>>  @@ PkgAS :> <<File10>> @@ PkgAB :> <<File3>> @@ PkgX :> <<File4>>) }

\* The import maps explored: no package imports itself, at most MaxEdges imports in all
\* (a diamond has four, one more closes a cycle through it).
EdgeSets == {E \in SUBSET {e \in PkgPaths \X PkgPaths : e[1] # e[2]} : Cardinality(E) <= MaxEdges}
ImportGraphs == {[p \in PkgPaths |-> {e[2] : e \in {x \in E : x[1] = p}}] : E \in EdgeSets}

\* The root packages packages.Load returns for "./...": distinct packages, in some order.
RootLists ==
    {s \in UNION {[1..n -> PkgPaths] : n \in 1..MaxRoots} :
        \A i, j \in 1..Len(s) : i # j => s[i] # s[j]}

\* [part_001:57] the package is already in the visited map
alreadyVisitedNever(pkgPath) == FALSE

alreadyVisited(pkgPath) == pkgPath \in imports

\* [part_001:76-80] isCandidate
isCandidateNoSlash(pkgPath) ==
    \/ dw.includeExternalDeps
    \/ pkgPath = dw.module
    \/ HasPrefix(pkgPath, dw.module)

isCandidate(pkgPath) ==
    \/ dw.includeExternalDeps
    \/ pkgPath = dw.module
    \/ HasPrefix(pkgPath, dw.moduleWithSlash)

\* The threads that call the commander: the main loop and the interrupt handler.
Threads == {"main", "sig"}

\* [commander.go:49-53] a commander right after NewCommander: c.cmd is nil.
NilCmd == [set |-> FALSE, Process |-> 0, ProcessState |-> "nil"]

\* A thread that is in no commander call.
NoCall ==
    [op |-> "none", pc |-> "idle", ret |-> "none", termSent |-> "no", stateAtTerm |-> "none",
     stateAtCheck |-> "none", killSent |-> "no", slept |-> FALSE, afterTerminate |-> FALSE,
     startsAtCall |-> 0]

\* [commander.go:53-55] NewCommander(cwd, command), before any call.
NewCommander(c) ==
    /\ command = c
    /\ cmd = NilCmd
    /\ cmu = "none"
    /\ procs = <<>>
    /\ sent = <<>>
    /\ call = [t \in Threads |-> NoCall]
    /\ startCalls = 0
    /\ termCalls = 0
    /\ lastDone = [op |-> "none", ret |-> "none"]

\* The commander at rest, for the specifications that do not run it.
IdleCmd == NewCommander(<<>>)

\* The dependency walker at rest, for the specifications that do not run it.
IdleDep ==
    /\ dw = [module |-> <<>>, moduleWithSlash |-> <<>>, includeExternalDeps |-> FALSE]
    /\ goMod = <<>>
    /\ loaded = [roots |-> <<>>]
    /\ imports = {}
    /\ stack = <<>>
    /\ deps = <<>>
    /\ listpc = "idle"
    /\ admitted = <<>>
    /\ traversed = <<>>
    /\ steps = 0

\* No watcher exists, for the specifications that do not run one.
IdleWatch ==
    /\ rev = "watch.go"
    /\ w = <<>>
    /\ fsn = <<>>
    /\ chans = <<>>
    /\ timers = <<>>
    /\ mons = <<>>
    /\ wcalls = <<>>
    /\ ccalls = <<>>
    /\ run = [pc |-> "idle", ch |-> 0, wi |-> 0, sig |-> "idle"]
    /\ prog = "running"
    /\ evs = <<>>
    /\ sinceEv = 0
    /\ burst = "none"
    /\ writes = <<>>

\* The command line already processed, for the specifications that start after it.
IdleArgs ==
    /\ args = <<>>
    /\ getwd = <<>>
    /\ stat = "dir"
    /\ path = <<>>
    /\ argpc = "idle"

InitDep ==
    /\ IdleArgs
    /\ IdleCmd
    /\ IdleWatch
    /\ \E incl \in BOOLEAN :
          dw = [module |-> <<>>, moduleWithSlash |-> <<>>, includeExternalDeps |-> incl]
    /\ goMod = PkgA
    /\ \E r \in RootLists, g \in ImportGraphs, f \in GoFilesLayouts :
          loaded = [roots |-> r, Imports |-> g, GoFiles |-> f]
    /\ imports = {}
    /\ stack = <<>>
    /\ deps = <<>>
    /\ listpc = "module"
    /\ admitted = [p \in PkgPaths |-> 0]
    /\ traversed = [p \in PkgPaths |-> 0]
    /\ steps = 0

\* [part_001:20-29] List reads the module path unless external packages are included.
ListModule ==
    /\ listpc = "module"
    /\ dw' = IF ~dw.includeExternalDeps
             THEN [dw EXCEPT !.module = goMod, !.moduleWithSlash = goMod \o <<47>>]
             ELSE dw
    /\ listpc' = "load"
    /\ steps' = steps + 1
    /\ UNCHANGED <<argVars, cmdVars, watchVars, goMod, loaded, imports, stack, deps, admitted, traversed>>

\* [part_001:31-42] packages.Load, the empty visited map, the call of visitAll on the roots.
ListLoad ==
    /\ listpc = "load"
    /\ imports' = {}
    /\ stack' = <<loaded.roots>>
    /\ listpc' = "visit"
    /\ steps' = steps + 1
    /\ UNCHANGED <<argVars, cmdVars, watchVars, dw, goMod, loaded, deps, admitted, traversed>>

\* An iteration that skips a package that is no candidate but still calls visitAll on
\* its imports.
visitSkipTraverses ==
    /\ listpc = "visit"
    /\ stack # <<>>
    /\ LET frame == stack[Len(stack)]
       IN /\ frame # <<>>
          /\ \/ /\ alreadyVisited(Head(frame))
                /\ stack' = [stack EXCEPT ![Len(stack)] = Tail(frame)]
                /\ traversed' = traversed
             \/ /\ ~alreadyVisited(Head(frame))
                /\ ~isCandidate(Head(frame))
                /\ traversed' = [traversed EXCEPT ![Head(frame)] = 1]
                /\ \E pi \in Perms(loaded.Imports[Head(frame)]) :
                      stack' = Append([stack EXCEPT ![Len(stack)] = Tail(frame)], pi)
    /\ steps' = steps + 1
    /\ UNCHANGED <<argVars, cmdVars, watchVars, dw, goMod, loaded, imports, deps, listpc, admitted>>

\* [part_001:56-63] one iteration of visitAll's loop that skips pkg: already in the
\* map, or not a candidate.
visitSkip ==
    /\ listpc = "visit"
    /\ stack # <<>>
    /\ LET frame == stack[Len(stack)]
       IN /\ frame # <<>>
          /\ \/ alreadyVisited(Head(frame))
             \/ ~isCandidate(Head(frame))
          /\ stack' = [stack EXCEPT ![Len(stack)] = Tail(frame)]
    /\ steps' = steps + 1
    /\ UNCHANGED <<argVars, cmdVars, watchVars, dw, goMod, loaded, imports, deps, listpc, admitted, traversed>>

\* [part_001:56-72] one iteration that admits pkg and calls visitAll on its imports,
\* which it ranged over in the map's (unspecified) order.
visitAdmit ==
    /\ listpc = "visit"
    /\ stack # <<>>
    /\ LET frame == stack[Len(stack)]
       IN /\ frame # <<>>
          /\ ~alreadyVisited(Head(frame))
          /\ isCandidate(Head(frame))
          /\ imports' = imports \cup {Head(frame)}
          /\ admitted' = [admitted EXCEPT ![Head(frame)] = @ + 1]
          /\ traversed' = [traversed EXCEPT ![Head(frame)] = @ + 1]
          /\ \E pi \in Perms(loaded.Imports[Head(frame)]) :
                stack' = Append([stack EXCEPT ![Len(stack)] = Tail(frame)], pi)
    /\ steps' = steps + 1
    /\ UNCHANGED <<argVars, cmdVars, watchVars, dw, goMod, loaded, deps, listpc>>

\* [part_001:56,73-74] the loop of one visitAll call is over: it returns.
visitReturn ==
    /\ listpc = "visit"
    /\ stack # <<>>
    /\ stack[Len(stack)] = <<>>
    /\ stack' = SubSeq(stack, 1, Len(stack) - 1)
    /\ steps' = steps + 1
    /\ UNCHANGED <<argVars, cmdVars, watchVars, dw, goMod, loaded, imports, deps, listpc, admitted, traversed>>

\* [part_001:42-44] the outermost visitAll call has returned to List.
visitAllReturned ==
    /\ listpc = "visit"
    /\ stack = <<>>

\* The files of the packages in order, appended one after the other.
RECURSIVE AppendFiles(_)
AppendFiles(order) ==
    IF Len(order) = 0 THEN <<>>
    ELSE loaded.GoFiles[Head(order)] \o AppendFiles(Tail(order))

\* A List that returns the files in the order it collected them, without sorting.
ListCollectUnsorted ==
    /\ visitAllReturned
    /\ deps' \in {AppendFiles(order) : order \in Perms(imports)}
    /\ listpc' = "done"
    /\ steps' = steps + 1
    /\ UNCHANGED <<argVars, cmdVars, watchVars, dw, goMod, loaded, imports, stack, admitted, traversed>>

\* [part_001:44-52] visitAll has returned: List appends every file of every package of
\* the map, ranging over the map in its (unspecified) order, sorts and returns.
ListCollect ==
    /\ visitAllReturned
    /\ deps' \in {SortStrings(AppendFiles(order)) : order \in Perms(imports)}
    /\ listpc' = "done"
    /\ steps' = steps + 1
    /\ UNCHANGED <<argVars, cmdVars, watchVars, dw, goMod, loaded, imports, stack, admitted, traversed>>

NextDep ==
    \/ ListModule
    \/ ListLoad
    \/ visitSkip
    \/ visitAdmit
    \/ visitReturn
    \/ ListCollect

SpecDep == InitDep /\ [][NextDep]_vars

----------------------------------------------------------------------------
(* commander *)

\* The largest number of Start calls and of Terminate calls explored.
MaxStarts == 1
MaxTerminates == 2

\* The command strings explored: "", " ", "\t ", "a", " a", "a b".
Commands == {<<>>, <<32>>, <<9, 32>>, <<97>>, <<32, 97>>, <<97, 32, 98>>}

\* unicode.IsSpace on the bytes of an ASCII string.
IsSpace(b) == b \in {9, 10, 11, 12, 13, 32}

\* strings.Fields(s): the maximal runs of non-space bytes of s, in order.
RECURSIVE FieldsFrom(_, _, _)
FieldsFrom(s, cur, acc) ==
    IF Len(s) = 0 THEN (IF Len(cur) = 0 THEN acc ELSE Append(acc, cur))
    ELSE IF IsSpace(Head(s))
         THEN FieldsFrom(Tail(s), <<>>, IF Len(cur) = 0 THEN acc ELSE Append(acc, cur))
         ELSE FieldsFrom(Tail(s), Append(cur, Head(s)), acc)

Fields(s) == FieldsFrom(s, <<>>, <<>>)

\* [commander.go:68-69] len(args) == 0
commandIsEmptyUnsplit == Len(command) = 0

commandIsEmpty == Len(Fields(command)) = 0

\* [commander.go:91] c.cmd == nil || c.cmd.Process == nil
notRunningNever == FALSE

notRunning == ~cmd.set \/ cmd.Process = 0

\* [commander.go:107] c.cmd.ProcessState != nil && c.cmd.ProcessState.Exited()
\* (ProcessState is the field of exec.Cmd that only cmd.Wait() sets.)
hasExited == cmd.ProcessState # "nil" /\ cmd.ProcessState = "exited"

\* The state of the child whose pid c.cmd.Process holds, as the kernel has it.
ChildState == IF cmd.Process \in 1..Len(procs) THEN procs[cmd.Process] ELSE "none"

\* syscall.Kill(-pid, sig) by thread t with outcome ok: SIGKILL, when delivered, ends
\* a running child; SIGTERM leaves it to the child to exit.
Kill(t, sig, ok) ==
    /\ sent' = Append(sent, [pid |-> cmd.Process, sig |-> sig, by |-> t, ok |-> ok])
    /\ procs' = IF ok /\ sig = "SIGKILL" /\ ChildState = "running"
                THEN [procs EXCEPT ![cmd.Process] = "killed"]
                ELSE procs

\* A call begins: thread t calls op on the commander.
BeginCall(t, op) ==
    /\ call[t].pc = "idle"
    /\ call' = [call EXCEPT ![t] =
                  [NoCall EXCEPT !.op = op, !.pc = "lock", !.startsAtCall = startCalls,
                                 !.afterTerminate =
                                      /\ op = "Terminate"
                                      /\ lastDone = [op |-> "Terminate", ret |-> "nil"]
                                      /\ ChildState \in {"exited", "killed"}
                                      /\ \A u \in Threads : call[u].pc = "idle"]]
    /\ startCalls' = IF op = "Start" THEN startCalls + 1 ELSE startCalls
    /\ termCalls' = IF op = "Terminate" THEN termCalls + 1 ELSE termCalls

\* A call ends: the caller has the result.
EndCall(t) ==
    /\ call[t].pc = "ret"
    /\ lastDone' = [op |-> call[t].op, ret |-> call[t].ret]
    /\ call' = [call EXCEPT ![t] = NoCall]

\* A lock that lets every caller in at once.
LockNoWait(t) ==
    /\ call[t].pc = "lock"
    /\ cmu' = t
    /\ call' = [call EXCEPT ![t].pc = IF call[t].op = "Start" THEN "start" ELSE "check"]
    /\ UNCHANGED <<command, cmd, procs, sent, startCalls, termCalls, lastDone>>
    /\ UNCHANGED <<argVars, depVars, watchVars>>

\* [commander.go:64, 88] c.mu.Lock(): blocks while another thread holds the lock.
Lock(t) ==
    /\ call[t].pc = "lock"
    /\ cmu = "none"
    /\ cmu' = t
    /\ call' = [call EXCEPT ![t].pc = IF call[t].op = "Start" THEN "start" ELSE "check"]
    /\ UNCHANGED <<command, cmd, procs, sent, startCalls, termCalls, lastDone>>
    /\ UNCHANGED <<argVars, depVars, watchVars>>

\* [commander.go:67-70] Start: the command has no fields.
StartEmpty(t) ==
    /\ call[t].pc = "start"
    /\ commandIsEmpty
    /\ call' = [call EXCEPT ![t].pc = "ret", ![t].ret = "EmptyCommandError"]
    /\ cmu' = "none"
    /\ UNCHANGED <<command, cmd, procs, sent, startCalls, termCalls, lastDone>>
    /\ UNCHANGED <<argVars, depVars, watchVars>>

\* [commander.go:72-85] Start: c.cmd is replaced by a new exec.Cmd, and c.cmd.Start()
\* spawns the child in its own process group, or fails.
StartSpawn(t) ==
    /\ call[t].pc = "start"
    /\ ~commandIsEmpty
    /\ \E ok \in BOOLEAN :
          IF ok
          THEN /\ procs' = Append(procs, "running")
               /\ cmd' = [set |-> TRUE, Process |-> Len(procs) + 1, ProcessState |-> "nil"]
               /\ call' = [call EXCEPT ![t].pc = "ret", ![t].ret = "nil"]
          ELSE /\ procs' = procs
               /\ cmd' = [set |-> TRUE, Process |-> 0, ProcessState |-> "nil"]
               /\ call' = [call EXCEPT ![t].pc = "ret", ![t].ret = "StartCommandError"]
    /\ cmu' = "none"
    /\ UNCHANGED <<command, sent, startCalls, termCalls, lastDone>>
    /\ UNCHANGED <<argVars, depVars, watchVars>>

\* [commander.go:91-94] Terminate: nothing is tracked.
TerminateNotRunning(t) ==
    /\ call[t].pc = "check"
    /\ notRunning
    /\ call' = [call EXCEPT ![t].pc = "ret", ![t].ret = "nil"]
    /\ cmu' = "none"
    /\ UNCHANGED <<command, cmd, procs, sent, startCalls, termCalls, lastDone>>
    /\ UNCHANGED <<argVars, depVars, watchVars>>

\* [commander.go:96-101] Terminate: SIGTERM to the process group; on failure forceKill
\* is called at once.
TerminateSigterm(t) ==
    /\ call[t].pc = "check"
    /\ ~notRunning
    /\ \E ok \in BOOLEAN :
          /\ Kill(t, "SIGTERM", ok)
          /\ call' = [call EXCEPT ![t].pc = IF ok THEN "sleep" ELSE "forceKill",
                                   ![t].termSent = IF ok THEN "ok" ELSE "failed",
                                   ![t].stateAtTerm = ChildState]
    /\ UNCHANGED <<command, cmd, cmu, startCalls, termCalls, lastDone>>
    /\ UNCHANGED <<argVars, depVars, watchVars>>

\* [commander.go:105] time.Sleep(c.terminationTimeout), with the lock held.
TerminateSleep(t) ==
    /\ call[t].pc = "sleep"
    /\ call' = [call EXCEPT ![t].pc = "woke", ![t].slept = TRUE]
    /\ UNCHANGED <<command, cmd, cmu, procs, sent, startCalls, termCalls, lastDone>>
    /\ UNCHANGED <<argVars, depVars, watchVars>>

\* [commander.go:107-111] after the sleep: return nil if ProcessState says the process
\* has exited, else call forceKill.
TerminateAfterSleep(t) ==
    /\ call[t].pc = "woke"
    /\ IF hasExited
       THEN /\ call' = [call EXCEPT ![t].pc = "ret", ![t].ret = "nil",
                                     ![t].stateAtCheck = ChildState]
            /\ cmu' = "none"
       ELSE /\ call' = [call EXCEPT ![t].pc = "forceKill", ![t].stateAtCheck = ChildState]
            /\ cmu' = cmu
    /\ UNCHANGED <<command, cmd, procs, sent, startCalls, termCalls, lastDone>>
    /\ UNCHANGED <<argVars, depVars, watchVars>>

\* A forceKill that returns nil whether or not the SIGKILL was sent.
forceKillSwallows(t) ==
    /\ call[t].pc = "forceKill"
    /\ IF notRunning
       THEN /\ call' = [call EXCEPT ![t].pc = "ret", ![t].ret = "nil"]
            /\ UNCHANGED <<procs, sent>>
       ELSE \E ok \in BOOLEAN :
               /\ Kill(t, "SIGKILL", ok)
               /\ call' = [call EXCEPT ![t].pc = "ret", ![t].ret = "nil",
                                        ![t].killSent = IF ok THEN "ok" ELSE "failed"]
    /\ cmu' = "none"
    /\ UNCHANGED <<command, cmd, startCalls, termCalls, lastDone>>
    /\ UNCHANGED <<argVars, depVars, watchVars>>

\* [commander.go:115-127] forceKill: SIGKILL to the process group; ForceKillError if the
\* kill fails.  Terminate returns what forceKill returns.
forceKill(t) ==
    /\ call[t].pc = "forceKill"
    /\ IF notRunning
       THEN /\ call' = [call EXCEPT ![t].pc = "ret", ![t].ret = "nil"]
            /\ UNCHANGED <<procs, sent>>
       ELSE \E ok \in BOOLEAN :
               /\ Kill(t, "SIGKILL", ok)
               /\ call' = [call EXCEPT ![t].pc = "ret",
                                        ![t].ret = IF ok THEN "nil" ELSE "ForceKillError",
                                        ![t].killSent = IF ok THEN "ok" ELSE "failed"]
    /\ cmu' = "none"
    /\ UNCHANGED <<command, cmd, startCalls, termCalls, lastDone>>
    /\ UNCHANGED <<argVars, depVars, watchVars>>

\* The child ends by itself (the command finishes, or it handles SIGTERM and exits).
\* Nothing in the program waits for it, so c.cmd.ProcessState stays nil.
ChildExits ==
    /\ \E pid \in 1..Len(procs) :
          /\ procs[pid] = "running"
          /\ procs' = [procs EXCEPT ![pid] = "exited"]
    /\ UNCHANGED <<command, cmd, cmu, sent, call, startCalls, termCalls, lastDone>>
    /\ UNCHANGED <<argVars, depVars, watchVars>>

\* Some thread calls Start.
CallStart ==
    /\ startCalls < MaxStarts
    /\ \E t \in Threads : BeginCall(t, "Start")
    /\ UNCHANGED <<command, cmd, cmu, procs, sent, lastDone>>
    /\ UNCHANGED <<argVars, depVars, watchVars>>

\* Some thread calls Terminate.
CallTerminate ==
    /\ termCalls < MaxTerminates
    /\ \E t \in Threads : BeginCall(t, "Terminate")
    /\ UNCHANGED <<command, cmd, cmu, procs, sent, lastDone>>
    /\ UNCHANGED <<argVars, depVars, watchVars>>

\* A call returns to its caller.
CallReturns ==
    /\ \E t \in Threads : EndCall(t)
    /\ UNCHANGED <<command, cmd, cmu, procs, sent, startCalls, termCalls>>
    /\ UNCHANGED <<argVars, depVars, watchVars>>

InitCmd ==
    /\ IdleArgs
    /\ \E c \in Commands : NewCommander(c)
    /\ IdleDep
    /\ IdleWatch

NextCmd ==
    \/ CallStart
    \/ CallTerminate
    \/ CallReturns
    \/ \E t \in Threads : Lock(t)
    \/ \E t \in Threads : StartEmpty(t)
    \/ \E t \in Threads : StartSpawn(t)
    \/ \E t \in Threads : TerminateNotRunning(t)
    \/ \E t \in Threads : TerminateSigterm(t)
    \/ \E t \in Threads : TerminateSleep(t)
    \/ \E t \in Threads : TerminateAfterSleep(t)
    \/ \E t \in Threads : forceKill(t)
    \/ ChildExits

SpecCmd == InitCmd /\ [][NextCmd]_vars

(* a commander that is started again *)

\* The largest number of calls, Start and Terminate together, its callers make.
MaxCalls == 3

\* Some thread calls Start, also after an earlier Start.
CallStartAgain ==
    /\ startCalls + termCalls < MaxCalls
    /\ \E t \in Threads : BeginCall(t, "Start")
    /\ UNCHANGED <<command, cmd, cmu, procs, sent, lastDone>>
    /\ UNCHANGED <<argVars, depVars, watchVars>>

\* Some thread calls Terminate.
CallTerminateAgain ==
    /\ startCalls + termCalls < MaxCalls
    /\ \E t \in Threads : BeginCall(t, "Terminate")
    /\ UNCHANGED <<command, cmd, cmu, procs, sent, lastDone>>
    /\ UNCHANGED <<argVars, depVars, watchVars>>

NextRestart ==
    \/ CallStartAgain
    \/ CallTerminateAgain
    \/ CallReturns
    \/ \E t \in Threads : Lock(t)
    \/ \E t \in Threads : StartEmpty(t)
    \/ \E t \in Threads : StartSpawn(t)
    \/ \E t \in Threads : TerminateNotRunning(t)
    \/ \E t \in Threads : TerminateSigterm(t)
    \/ \E t \in Threads : TerminateSleep(t)
    \/ \E t \in Threads : TerminateAfterSleep(t)
    \/ \E t \in Threads : forceKill(t)
    \/ ChildExits

SpecRestart == InitCmd /\ [][NextRestart]_vars

----------------------------------------------------------------------------
(* Claims about commander *)

\* A Terminate call of thread t that has returned (its caller has not consumed it yet).
TerminateReturned(t) == call[t].op = "Terminate" /\ call[t].pc = "ret"

\* C6: a Terminate whose SIGTERM was delivered returns nil without sending SIGKILL when
\* the child, running at the SIGTERM, has exited by the end of the grace period; and
\* sends SIGKILL to the process group when the child is still running then.
C6_GracefulExitNoKill ==
    \A t \in Threads :
        (TerminateReturned(t) /\ call[t].termSent = "ok") =>
            /\ (call[t].stateAtTerm = "running" /\ call[t].stateAtCheck = "exited") =>
                   (call[t].ret = "nil" /\ call[t].killSent = "no")
            /\ call[t].stateAtCheck = "running" => call[t].killSent # "no"

\* C7: Terminate on a commander on which Start was never called returns nil, sends no
\* signal, does not sleep and leaves c.cmd nil.
C7_TerminateBeforeStart ==
    \A t \in Threads :
        (TerminateReturned(t) /\ startCalls = 0) =>
            /\ call[t].ret = "nil"
            /\ sent = <<>>
            /\ ~call[t].slept
            /\ cmd = NilCmd

\* A Terminate has returned, and a second one after it, with no Start call ever made.
C7_Witness ==
    /\ startCalls = 0
    /\ lastDone = [op |-> "Terminate", ret |-> "nil"]
    /\ \E t \in Threads : TerminateReturned(t) /\ call[t].ret = "nil"

\* C8: a Terminate called after an earlier Terminate has returned success and the
\* child is gone, with no call in progress and no Start since, sends no signal and
\* returns nil.
C8_TerminateIdempotent ==
    \A t \in Threads :
        (/\ TerminateReturned(t)
         /\ call[t].afterTerminate
         /\ call[t].startsAtCall = startCalls) =>
            /\ call[t].ret = "nil"
            /\ call[t].termSent = "no"
            /\ call[t].killSent = "no"

\* The command string is empty or made of white space only.
IsBlank(s) == \A i \in 1..Len(s) : s[i] = 32 \/ s[i] \in 9..13

\* C9: on a commander whose command is empty or white space only, every Start returns
\* EmptyCommandError, no process is ever spawned, and c.cmd stays what it was (nil: no
\* other code sets it).
C9_StartEmptyCommand ==
    IsBlank(command) =>
        /\ \A t \in Threads :
              (call[t].op = "Start" /\ call[t].pc = "ret") => call[t].ret = "EmptyCommandError"
        /\ procs = <<>>
        /\ cmd = NilCmd

\* Start has returned EmptyCommandError on the command "\t ".
C9_Witness ==
    /\ command = <<9, 32>>
    /\ \E t \in Threads :
          call[t].op = "Start" /\ call[t].pc = "ret" /\ call[t].ret = "EmptyCommandError"

\* Thread t is inside Start or Terminate, between c.mu.Lock() and the deferred Unlock.
InCritical(t) == call[t].pc \in {"start", "check", "sleep", "woke", "forceKill"}

\* C15: Start and Terminate exclude each other: at most one thread is inside either,
\* and it holds the lock.  So a Terminate called while Start runs, and a Start called
\* while Terminate sleeps through its grace period, wait at the lock until the other
\* has returned.
C15_MutualExclusion ==
    \A t \in Threads :
        InCritical(t) =>
            /\ cmu = t
            /\ \A u \in Threads \ {t} : ~InCritical(u) /\ call[u].pc \in {"idle", "lock", "ret"}

\* A Terminate sleeps through its grace period after SIGTERM to a started child, and a
\* Start called by the other thread waits at the lock.
C15_Witness ==
    \E t \in Threads : \E u \in Threads \ {t} :
        /\ call[t].op = "Terminate"
        /\ call[t].pc = "sleep"
        /\ call[u].op = "Start"
        /\ call[u].pc = "lock"

\* C21: a Terminate on a tracked process escalates in order.  Once it has sent
\* SIGTERM: a SIGKILL is only sent after the SIGTERM; when the SIGTERM send failed the
\* call has not slept and goes straight to SIGKILL; when it succeeded the call has slept
\* through the grace period before it tests for exit or sends SIGKILL; and a returned
\* call has returned ForceKillError exactly when its SIGKILL send failed.
C21_EscalationOrder ==
    \A t \in Threads :
        (call[t].op = "Terminate" /\ call[t].pc \in {"woke", "forceKill", "ret"}) =>
            /\ call[t].killSent # "no" => call[t].termSent # "no"
            /\ call[t].termSent = "failed" => ~call[t].slept
            /\ (call[t].termSent = "failed" /\ call[t].pc = "ret") => call[t].killSent # "no"
            /\ call[t].termSent = "ok" => call[t].slept
            /\ call[t].pc = "ret" =>
                  (call[t].ret = "ForceKillError" <=> call[t].killSent = "failed")
            /\ \A n \in 1..Len(sent) :
                  (sent[n].by = t /\ sent[n].sig = "SIGKILL") =>
                      \E m \in 1..(n - 1) : sent[m].by = t /\ sent[m].sig = "SIGTERM"

\* Both sends of a Terminate failed: it has returned ForceKillError without sleeping.
\* And the other thread's Terminate, whose SIGTERM was sent, has slept and returned nil
\* after a SIGKILL that was sent.
C21_Witness ==
    \E t \in Threads : \E u \in Threads \ {t} :
        /\ TerminateReturned(t)
        /\ call[t].termSent = "failed"
        /\ call[t].killSent = "failed"
        /\ call[t].ret = "ForceKillError"
        /\ ~call[t].slept
        /\ TerminateReturned(u)
        /\ call[u].termSent = "ok"
        /\ call[u].slept
        /\ call[u].killSent = "ok"
        /\ call[u].ret = "nil"

----------------------------------------------------------------------------
(* Claims about DepWalker *)

\* The scope test as the specification words it: the path is the module identifier,
\* or the module identifier followed by "/" and more.
InScopePath(p) ==
    \/ p = goMod
    \/ /\ Len(p) > Len(goMod)
       /\ \A i \in 1..Len(goMod) : p[i] = goMod[i]
       /\ p[Len(goMod) + 1] = 47

\* The packages reachable from S along import edges.
RECURSIVE ReachableFrom(_)
ReachableFrom(S) ==
    LET T == S \cup UNION {loaded.Imports[p] : p \in S}
    IN IF T = S THEN S ELSE ReachableFrom(T)

FilesOf(P) == UNION {Range(loaded.GoFiles[p]) : p \in P}

\* C3: without external packages List returns only files of packages whose path is the
\* module identifier or starts with it and "/"; with external packages it returns the
\* files of every package reachable from the loaded roots.
C3_ListScope ==
    listpc = "done" =>
        IF dw.includeExternalDeps
        THEN Range(deps) = FilesOf(ReachableFrom(Range(loaded.roots)))
        ELSE Range(deps) \subseteq FilesOf({p \in PkgPaths : InScopePath(p)})

\* The scenario of C3: module a, root a importing a/s and x, external packages excluded:
\* List has returned the files of a and a/s only.
C3_Witness ==
    /\ listpc = "done"
    /\ ~dw.includeExternalDeps
    /\ loaded.roots = <<PkgA>>
    /\ loaded.Imports[PkgA] = {PkgAS, PkgX}
    /\ loaded.Imports[PkgX] = {PkgAB}
    /\ deps = <<File1, File10, File2>>

\* Sum of the lengths of the frames of visitAll's call stack.
RECURSIVE PendingPkgs(_)
PendingPkgs(st) == IF Len(st) = 0 THEN 0 ELSE Len(Head(st)) + PendingPkgs(Tail(st))

\* What is left of List's work: a natural number; each step of List takes at least
\* one off.  Admitting a package takes it out of the not-yet-visited packages and puts
\* at most all the other packages, in one new frame, on the stack.
VisitWorkMax == (Cardinality(PkgPaths) + 1) * Cardinality(PkgPaths) + Cardinality(PkgPaths) + 1

WorkLeft ==
    CASE listpc = "module" -> 2 * VisitWorkMax + 3
      [] listpc = "load"   -> 2 * VisitWorkMax + 2
      [] listpc = "visit"  -> (Cardinality(PkgPaths) + 1) * Cardinality(PkgPaths \ imports)
                                + PendingPkgs(stack) + Len(stack) + 1
      [] OTHER             -> 0

\* C4: on every import graph, cycles and diamonds included, visitAll returns (List is
\* never stuck before it returns, and the steps taken plus the work left never exceed
\* the work there was at the start), and no package is put into the visited map twice
\* nor has its imports traversed twice.
C4_VisitOnce ==
    /\ \A p \in PkgPaths : admitted[p] <= 1 /\ traversed[p] <= 1
    /\ listpc # "done" =>
          \/ ENABLED (ListModule \/ ListLoad \/ visitSkip \/ visitAdmit \/ visitReturn)
          \/ visitAllReturned
    /\ steps + WorkLeft <= 2 * VisitWorkMax + 3

\* A diamond below a (a imports a/s and ab, both import x) with x importing a back (a
\* cycle), all admitted, and List has returned.
C4_Witness ==
    /\ listpc = "done"
    /\ dw.includeExternalDeps
    /\ loaded.Imports[PkgA] = {PkgAS, PkgAB}
    /\ loaded.Imports[PkgAS] = {PkgX}
    /\ loaded.Imports[PkgAB] = {PkgX}
    /\ loaded.Imports[PkgX] = {PkgA}
    /\ loaded.roots = <<PkgA>>
    /\ imports = PkgPaths
    /\ \A p \in PkgPaths : admitted[p] = 1

\* C5: the slice List returns is sorted and holds no path twice, also when the loader
\* lists one file in two admitted packages or twice in one package.
C5_SortedNoDuplicates ==
    listpc = "done" =>
        /\ \A i, j \in 1..Len(deps) : i < j => ~StrLess(deps[j], deps[i])
        /\ \A i, j \in 1..Len(deps) : i # j => deps[i] # deps[j]

\* What holds of the returned slice: it is sorted, and holds every file as often as
\* the admitted packages list it.
C5_SortedOnly ==
    listpc = "done" =>
        /\ \A i, j \in 1..Len(deps) : i < j => ~StrLess(deps[j], deps[i])
        /\ Len(deps) = Len(AppendFiles(CHOOSE o \in Perms(imports) : TRUE))

\* The in-scope packages reachable from S along import edges whose ends are both in
\* scope.
RECURSIVE ScopedReachableFrom(_)
ScopedReachableFrom(S) ==
    LET T == S \cup {q \in UNION {loaded.Imports[p] : p \in S} : InScopePath(q)}
    IN IF T = S THEN S ELSE ScopedReachableFrom(T)

\* The in-scope packages reachable from an in-scope root through in-scope packages only.
ScopedReach == ScopedReachableFrom({r \in Range(loaded.roots) : InScopePath(r)})

\* C22: without external packages, the packages admitted are never others than the
\* in-scope packages reachable from an in-scope root through in-scope packages only,
\* and are exactly those when visitAll has returned; the imports of a package that is
\* out of scope are never traversed; and the returned files are exactly the files of
\* those packages, so an in-scope package reachable only through a package out of scope
\* adds nothing.
C22_ScopedReachability ==
    ~dw.includeExternalDeps =>
        /\ imports \subseteq ScopedReach
        /\ \A p \in PkgPaths : ~InScopePath(p) => traversed[p] = 0
        /\ (listpc = "visit" /\ stack = <<>>) => imports = ScopedReach
        /\ listpc = "done" =>
              /\ imports = ScopedReach
              /\ Range(deps) = FilesOf(ScopedReach)

\* Module a, root a importing x, x importing a/s: List has returned the files of a only,
\* not the file of a/s.
C22_Witness ==
    /\ listpc = "done"
    /\ ~dw.includeExternalDeps
    /\ loaded.roots = <<PkgA>>
    /\ loaded.Imports[PkgA] = {PkgX}
    /\ loaded.Imports[PkgX] = {PkgAS}
    /\ loaded.GoFiles[PkgAS] = <<File10>>
    /\ imports = {PkgA}
    /\ File10 \notin Range(deps)

\* What List returns as a function of the module identifier, the flag, the set of
\* roots, the import maps and the file lists alone: the sorted files of the packages
\* to admit, taken in one fixed order.
ListResult ==
    LET admit == IF dw.includeExternalDeps
                 THEN ReachableFrom(Range(loaded.roots))
                 ELSE ScopedReach
    IN  SortStrings(AppendFiles(CHOOSE o \in Perms(admit) : TRUE))

\* C23: the sequence List returns does not depend on the traversal order: whatever the
\* order of the roots, the order in which each import map was ranged over and the
\* order in which the visited map was ranged over, List returns the one sequence that
\* the module identifier, the flag and the package graph determine.
C23_OrderIndependent == listpc = "done" => deps = ListResult

\* Two roots given with the sub-package first, a importing ab and x, all four packages
\* admitted: List has returned the five files in their order.
C23_Witness ==
    /\ listpc = "done"
    /\ dw.includeExternalDeps
    /\ loaded.roots = <<PkgAS, PkgA>>
    /\ loaded.Imports[PkgA] = {PkgAB, PkgX}
    /\ loaded.Imports[PkgX] = {PkgAS}
    /\ imports = PkgPaths
    /\ deps = <<File1, File10, File2, File3, File4>>

----------------------------------------------------------------------------
(* watcher *)

\* defaultDebounceDelay (250 ms), in ticks of the model's clock.
Delay == 2

\* The largest number of qualifying events the monitor loops of one watcher receive.
MaxEvents == 2

\* The largest number of Close calls made on one watcher by its clients.
MaxCloses == 2

\* No goroutine: the value of a mutex nobody holds.
Free == <<"none", 0>>

\* [watch.go:65-76] NewWatcher(): every field but debounceDelay is zero.
NewWatcher == [watcher |-> 0, timer |-> 0, done |-> 0, closed |-> FALSE, mu |-> Free]

\* The program has neither panicked nor exited.
Alive == prog = "running"

\* The operations an fsnotify event can carry, and the events explored.
Ops == {"Create", "Write", "Remove", "Rename", "Chmod"}
EventOps == (SUBSET Ops) \ {{}}

\* What an event is to the watcher's clients: a "change" of a file's existence or
\* content, or "metadata" only (a rename, a chmod).
EventKind(ops) == IF ops \cap {"Create", "Remove", "Write"} = {} THEN "metadata" ELSE "change"

\* A filter that also lets a rename through.
qualifiesRename(ops) == ops \cap {"Create", "Remove", "Write", "Rename"} # {}

\* [watch.go:163-164] the event is not ignored: it has Create, Remove or Write.
qualifies(ops) == "Create" \in ops \/ "Remove" \in ops \/ "Write" \in ops

\* The goroutines blocked in a receive on channel ch.
Receivers(ch) ==
    {<<"watch", k>> : k \in {x \in 1..Len(wcalls) : wcalls[x].pc = "recv" /\ wcalls[x].ch = ch}}
    \cup (IF run.pc = "recv" /\ run.ch = ch THEN {<<"main", 0>>} ELSE {})

\* Receiver r gets the nil sent on the channel: a Watch call returns it, the main loop
\* goes on.
Delivered(r) ==
    /\ wcalls' = IF r[1] = "watch"
                 THEN [wcalls EXCEPT ![r[2]].pc = "ret", ![r[2]].ret = "nil"]
                 ELSE wcalls
    /\ run' = IF r[1] = "main" THEN [run EXCEPT !.pc = "got"] ELSE run

\* [watch.go:199-211] the select of end(nil) on watcher i: the send happens if some
\* goroutine is receiving on w.done (it panics if the channel is closed); otherwise,
\* also when w.done is still nil, the default case runs and nothing is sent.
endSelect(i) ==
    IF w[i].done = 0
    THEN UNCHANGED <<wcalls, run, writes, prog>>
    ELSE IF chans[w[i].done].closed
    THEN /\ prog' = "panic: send on closed channel"
         /\ UNCHANGED <<wcalls, run, writes>>
    ELSE IF Receivers(w[i].done) = {}
    THEN UNCHANGED <<wcalls, run, writes, prog>>
    ELSE /\ \E r \in Receivers(w[i].done) :
               /\ Delivered(r)
               /\ writes' = Append(writes, [wi |-> i, ch |-> w[i].done, to |-> r[1],
                                            since |-> sinceEv, burst |-> burst])
         /\ prog' = prog

\* [part_003:224-241] end(nil): nothing once the watcher is marked closed.  (watch.go
\* has no closed field: there the test is absent, and closed is never set.)
end(i) ==
    IF w[i].closed
    THEN UNCHANGED <<wcalls, run, writes, prog>>
    ELSE endSelect(i)

\* A stopTimer that leaves the pending timer armed.
stopTimerNever(i) == timers

\* [watch.go:191-197] stopTimer on watcher i: the timers after t.Stop(), which keeps an
\* armed timer from firing and does nothing to one that has fired.  The caller sets
\* w.timer to nil.
stopTimer(i) ==
    IF w[i].timer # 0 /\ timers[w[i].timer].state = "armed"
    THEN [timers EXCEPT ![w[i].timer].state = "stopped", ![w[i].timer].left = 0]
    ELSE timers

(* Watch *)

\* [watch.go:84-86] Watch refuses to run when w.watcher is set.
WatchCheck(k) ==
    /\ Alive
    /\ wcalls[k].pc = "check"
    /\ wcalls' = IF w[wcalls[k].wi].watcher # 0
                 THEN [wcalls EXCEPT ![k].pc = "ret", ![k].ret = "WatcherAlreadyRunningError"]
                 ELSE [wcalls EXCEPT ![k].pc = "make"]
    /\ UNCHANGED <<rev, w, fsn, chans, timers, mons, ccalls, run, prog, evs, sinceEv, burst, writes>>
    /\ UNCHANGED <<argVars, depVars, cmdVars>>

\* [watch.go:88] w.done = make(chan error)
WatchMakeDone(k) ==
    /\ Alive
    /\ wcalls[k].pc = "make"
    /\ chans' = Append(chans, [closed |-> FALSE])
    /\ w' = [w EXCEPT ![wcalls[k].wi].done = Len(chans) + 1]
    /\ wcalls' = [wcalls EXCEPT ![k].pc = "new"]
    /\ UNCHANGED <<rev, fsn, timers, mons, ccalls, run, prog, evs, sinceEv, burst, writes>>
    /\ UNCHANGED <<argVars, depVars, cmdVars>>

\* [watch.go:90-94] fsnotify.NewWatcher() and w.watcher = watcher, or WatcherCreationError.
WatchNewWatcher(k) ==
    /\ Alive
    /\ wcalls[k].pc = "new"
    /\ \E ok \in BOOLEAN :
          IF ok
          THEN /\ fsn' = Append(fsn, [closeCalled |-> FALSE, chClosed |-> FALSE])
               /\ w' = [w EXCEPT ![wcalls[k].wi].watcher = Len(fsn) + 1]
               /\ wcalls' = [wcalls EXCEPT ![k].pc = "setup"]
          ELSE /\ wcalls' = [wcalls EXCEPT ![k].pc = "ret", ![k].ret = "WatcherCreationError"]
               /\ UNCHANGED <<fsn, w>>
    /\ UNCHANGED <<rev, chans, timers, mons, ccalls, run, prog, evs, sinceEv, burst, writes>>
    /\ UNCHANGED <<argVars, depVars, cmdVars>>

\* [watch.go:96-110] walker.List(path) and watcher.Add(p) for every path: Watch returns
\* WatcherDepWalkerError or PathAdditionError, or both succeed and it starts the
\* monitor loop with go w.monitor().
WatchGoMonitor(k) ==
    /\ Alive
    /\ wcalls[k].pc = "setup"
    /\ \E res \in {"ok", "WatcherDepWalkerError", "PathAdditionError"} :
          IF res = "ok"
          THEN /\ mons' = Append(mons, [wi |-> wcalls[k].wi, pc |-> "eval", sel |-> 0,
                                     got |-> "none"])
               /\ wcalls' = [wcalls EXCEPT ![k].pc = "recvEval"]
          ELSE /\ wcalls' = [wcalls EXCEPT ![k].pc = "ret", ![k].ret = res]
               /\ mons' = mons
    /\ UNCHANGED <<rev, w, fsn, chans, timers, ccalls, run, prog, evs, sinceEv, burst, writes>>
    /\ UNCHANGED <<argVars, depVars, cmdVars>>

\* [watch.go:113] Watch evaluates w.done and starts to receive on that channel.
WatchRecv(k) ==
    /\ Alive
    /\ wcalls[k].pc = "recvEval"
    /\ wcalls' = [wcalls EXCEPT ![k].pc = "recv", ![k].ch = w[wcalls[k].wi].done]
    /\ UNCHANGED <<rev, w, fsn, chans, timers, mons, ccalls, run, prog, evs, sinceEv, burst, writes>>
    /\ UNCHANGED <<argVars, depVars, cmdVars>>

\* [watch.go:113-117] the channel Watch receives on has been closed: it gets nil and
\* returns nil.
WatchRecvClosed(k) ==
    /\ Alive
    /\ wcalls[k].pc = "recv"
    /\ wcalls[k].ch # 0
    /\ chans[wcalls[k].ch].closed
    /\ wcalls' = [wcalls EXCEPT ![k].pc = "ret", ![k].ret = "nil"]
    /\ UNCHANGED <<rev, w, fsn, chans, timers, mons, ccalls, run, prog, evs, sinceEv, burst, writes>>
    /\ UNCHANGED <<argVars, depVars, cmdVars>>

(* monitor *)

\* [watch.go:146, 154] the select of monitor evaluates w.watcher.Errors and
\* w.watcher.Events: a nil w.watcher is a nil pointer dereference.
monitorEval(m) ==
    /\ Alive
    /\ mons[m].pc = "eval"
    /\ IF w[mons[m].wi].watcher = 0
       THEN /\ prog' = "panic: nil pointer dereference"
            /\ mons' = mons
       ELSE /\ mons' = [mons EXCEPT ![m].pc = "select", ![m].sel = w[mons[m].wi].watcher,
                                    ![m].got = "none"]
            /\ prog' = prog
    /\ UNCHANGED <<rev, w, fsn, chans, timers, wcalls, ccalls, run, evs, sinceEv, burst, writes>>
    /\ UNCHANGED <<argVars, depVars, cmdVars>>

\* [watch.go:147-151, 155-159] the Errors or the Events channel is closed: end(nil), and
\* the loop ends.
monitorChannelClosed(m) ==
    /\ Alive
    /\ mons[m].pc = "select"
    /\ fsn[mons[m].sel].chClosed
    /\ end(mons[m].wi)
    /\ mons' = [mons EXCEPT ![m].pc = "done", ![m].got = "closed"]
    /\ UNCHANGED <<rev, w, fsn, chans, timers, ccalls, evs, sinceEv, burst>>
    /\ UNCHANGED <<argVars, depVars, cmdVars>>

\* The monitor loop m is in its select, and fsnotify has not closed Events and Errors
\* yet: it can still deliver.
Delivers(m) ==
    /\ mons[m].pc = "select"
    /\ ~fsn[mons[m].sel].chClosed

\* A loop that an error on Errors ends, as a closed channel does.
monitorErrorEnds(m) ==
    /\ Alive
    /\ Delivers(m)
    /\ end(mons[m].wi)
    /\ mons' = [mons EXCEPT ![m].pc = "done", ![m].got = "error"]
    /\ UNCHANGED <<rev, w, fsn, chans, timers, ccalls, evs, sinceEv, burst>>
    /\ UNCHANGED <<argVars, depVars, cmdVars>>

\* [watch.go:146, 152] an error arrives on Errors: it is logged, and the loop goes on.
monitorError(m) ==
    /\ Alive
    /\ Delivers(m)
    /\ mons' = [mons EXCEPT ![m].pc = "eval", ![m].got = "error"]
    /\ UNCHANGED <<rev, w, fsn, chans, timers, wcalls, ccalls, run, prog, evs, sinceEv, burst, writes>>
    /\ UNCHANGED <<argVars, depVars, cmdVars>>

\* [watch.go:154, 161-167] an event arrives on Events: ignored unless it qualifies.
\* The monitor loop then waits for the lock to restart the timer.  (One watcher gets at
\* most MaxEvents qualifying events.)
monitorEvent(m) ==
    /\ Alive
    /\ Delivers(m)
    /\ \E ops \in EventOps :
          IF qualifies(ops)
          THEN /\ evs[mons[m].wi] < MaxEvents
               /\ evs' = [evs EXCEPT ![mons[m].wi] = @ + 1]
               /\ mons' = [mons EXCEPT ![m].pc = "lockEv", ![m].got = EventKind(ops)]
               /\ burst' = IF burst = "off" THEN "off"
                           ELSE IF burst = "none" \/ (burst = "ok" /\ sinceEv < Delay)
                           THEN "ok" ELSE "broken"
               /\ sinceEv' = IF burst = "off" THEN sinceEv ELSE 0
          ELSE /\ mons' = [mons EXCEPT ![m].pc = "eval", ![m].got = EventKind(ops)]
               /\ UNCHANGED <<evs, burst, sinceEv>>
    /\ UNCHANGED <<rev, w, fsn, chans, timers, wcalls, ccalls, run, prog, writes>>
    /\ UNCHANGED <<argVars, depVars, cmdVars>>

\* [watch.go:170-179] syncRun: with the lock, stop the pending timer if any and arm a
\* new one with time.AfterFunc(w.debounceDelay, ...).
monitorArm(m) ==
    /\ Alive
    /\ mons[m].pc = "lockEv"
    /\ w[mons[m].wi].mu = Free
    /\ timers' = Append(stopTimer(mons[m].wi),
                        [wi |-> mons[m].wi, state |-> "armed", left |-> Delay, cb |-> "none"])
    /\ w' = [w EXCEPT ![mons[m].wi].timer = Len(timers) + 1]
    /\ mons' = [mons EXCEPT ![m].pc = "eval", ![m].got = "none"]
    /\ UNCHANGED <<rev, fsn, chans, wcalls, ccalls, run, prog, evs, sinceEv, burst, writes>>
    /\ UNCHANGED <<argVars, depVars, cmdVars>>

(* the debounce timer *)

\* One tick of the clock: no armed timer is due (a due timer fires first).
Tick ==
    /\ Alive
    /\ \A t \in 1..Len(timers) : timers[t].state = "armed" => timers[t].left > 0
    /\ (burst # "off" /\ sinceEv < Delay) \/ \E t \in 1..Len(timers) : timers[t].state = "armed"
    /\ timers' = [t \in 1..Len(timers) |->
                    IF timers[t].state = "armed"
                    THEN [timers[t] EXCEPT !.left = @ - 1]
                    ELSE timers[t]]
    /\ sinceEv' = IF burst # "off" /\ sinceEv < Delay THEN sinceEv + 1 ELSE sinceEv
    /\ UNCHANGED <<rev, w, fsn, chans, mons, wcalls, ccalls, run, prog, evs, burst, writes>>
    /\ UNCHANGED <<argVars, depVars, cmdVars>>

\* [watch.go:176-178] the delay of an armed timer is over: its function starts in a
\* goroutine of its own.
TimerFires(t) ==
    /\ Alive
    /\ timers[t].state = "armed"
    /\ timers[t].left = 0
    /\ timers' = [timers EXCEPT ![t].state = "fired", ![t].cb = "lock"]
    /\ UNCHANGED <<rev, w, fsn, chans, mons, wcalls, ccalls, run, prog, evs, sinceEv, burst, writes>>
    /\ UNCHANGED <<argVars, depVars, cmdVars>>

\* [watch.go:184-186] process, watch.go: syncRun(w.stopTimer) takes the lock, stops
\* whatever timer w.timer holds now, and releases the lock.
processStopTimer(t) ==
    /\ Alive
    /\ rev = "watch.go"
    /\ timers[t].cb = "lock"
    /\ w[timers[t].wi].mu = Free
    /\ timers' = [stopTimer(timers[t].wi) EXCEPT ![t].cb = "end"]
    /\ w' = [w EXCEPT ![timers[t].wi].timer = 0]
    /\ UNCHANGED <<rev, fsn, chans, mons, wcalls, ccalls, run, prog, evs, sinceEv, burst, writes>>
    /\ UNCHANGED <<argVars, depVars, cmdVars>>

\* [watch.go:187-189] process, watch.go: end(nil), without the lock.
processEnd(t) ==
    /\ Alive
    /\ rev = "watch.go"
    /\ timers[t].cb = "end"
    /\ end(timers[t].wi)
    /\ timers' = [timers EXCEPT ![t].cb = "done"]
    /\ UNCHANGED <<rev, w, fsn, chans, mons, ccalls, evs, sinceEv, burst>>
    /\ UNCHANGED <<argVars, depVars, cmdVars>>

\* [part_003:197-199, 208-210] the timer's function, part_003: syncRun takes the lock;
\* process stops whatever timer w.timer holds now.
processLocked(t) ==
    /\ Alive
    /\ rev = "part_003"
    /\ timers[t].cb = "lock"
    /\ w[timers[t].wi].mu = Free
    /\ timers' = [stopTimer(timers[t].wi) EXCEPT ![t].cb = "end"]
    /\ w' = [w EXCEPT ![timers[t].wi].timer = 0, ![timers[t].wi].mu = <<"cb", t>>]
    /\ UNCHANGED <<rev, fsn, chans, mons, wcalls, ccalls, run, prog, evs, sinceEv, burst, writes>>
    /\ UNCHANGED <<argVars, depVars, cmdVars>>

\* [part_003:211-212, 200-201] process, part_003: end(nil), then syncRun releases the lock.
processEndLocked(t) ==
    /\ Alive
    /\ rev = "part_003"
    /\ timers[t].cb = "end"
    /\ end(timers[t].wi)
    /\ timers' = [timers EXCEPT ![t].cb = "done"]
    /\ w' = [w EXCEPT ![timers[t].wi].mu = Free]
    /\ UNCHANGED <<rev, fsn, chans, mons, ccalls, evs, sinceEv, burst>>
    /\ UNCHANGED <<argVars, depVars, cmdVars>>

(* Close *)

\* [watch.go:121] w.mu.Lock()
CloseLock(j) ==
    /\ Alive
    /\ ccalls[j].pc = "lock"
    /\ w[ccalls[j].wi].mu = Free
    /\ w' = [w EXCEPT ![ccalls[j].wi].mu = <<"close", j>>]
    /\ ccalls' = [ccalls EXCEPT ![j].pc = "check"]
    /\ UNCHANGED <<rev, fsn, chans, timers, mons, wcalls, run, prog, evs, sinceEv, burst, writes>>
    /\ UNCHANGED <<argVars, depVars, cmdVars>>

\* [watch.go:124] the test Close makes first: no fsnotify watcher is set.
watcherIsNilNever(i) == FALSE

watcherIsNil(i) == w[i].watcher = 0

\* [watch.go:124-135; part_003:139-150] not running: Close returns nil and releases
\* the lock.  Running: Close stops the pending timer; part_003 first panics if the
\* watcher is marked closed, and takes tw := w.watcher.
CloseCheck(j) ==
    /\ Alive
    /\ ccalls[j].pc = "check"
    /\ IF watcherIsNil(ccalls[j].wi)
       THEN /\ w' = [w EXCEPT ![ccalls[j].wi].mu = Free]
            /\ ccalls' = [ccalls EXCEPT ![j].pc = "ret", ![j].ret = "nil", ![j].effect = FALSE]
            /\ UNCHANGED <<timers, prog>>
       ELSE IF rev = "part_003" /\ w[ccalls[j].wi].closed
       THEN /\ prog' = "panic: watcher should not be closed"
            /\ UNCHANGED <<timers, w, ccalls>>
       ELSE /\ timers' = stopTimer(ccalls[j].wi)
            /\ w' = [w EXCEPT ![ccalls[j].wi].timer = 0]
            /\ ccalls' = [ccalls EXCEPT ![j].pc = "body", ![j].tw = w[ccalls[j].wi].watcher]
            /\ prog' = prog
    /\ UNCHANGED <<rev, fsn, chans, mons, wcalls, run, evs, sinceEv, burst, writes>>
    /\ UNCHANGED <<argVars, depVars, cmdVars>>

\* close(w.done) by Close call j: closing a nil or a closed channel panics.
closeDone(j) ==
    IF w[ccalls[j].wi].done = 0
    THEN /\ prog' = "panic: close of nil channel"
         /\ chans' = chans
    ELSE IF chans[w[ccalls[j].wi].done].closed
    THEN /\ prog' = "panic: close of closed channel"
         /\ chans' = chans
    ELSE /\ chans' = [chans EXCEPT ![w[ccalls[j].wi].done].closed = TRUE]
         /\ prog' = prog

\* [watch.go:136] watch.go: w.watcher.Close(), whose result Close returns.
CloseFsWatcher(j) ==
    /\ Alive
    /\ rev = "watch.go"
    /\ ccalls[j].pc = "body"
    /\ fsn' = [fsn EXCEPT ![w[ccalls[j].wi].watcher].closeCalled = TRUE]
    /\ ccalls' = [ccalls EXCEPT ![j].pc = "deferred"]
    /\ UNCHANGED <<rev, w, chans, timers, mons, wcalls, run, prog, evs, sinceEv, burst, writes>>
    /\ UNCHANGED <<argVars, depVars, cmdVars>>

\* [watch.go:129-133, 122] watch.go, deferred: close(w.done), w.watcher = nil,
\* w.timer = nil, then the lock is released.  Close returns what fsnotify's Close did.
CloseDeferred(j) ==
    /\ Alive
    /\ rev = "watch.go"
    /\ ccalls[j].pc = "deferred"
    /\ closeDone(j)
    /\ w' = [w EXCEPT ![ccalls[j].wi].watcher = 0, ![ccalls[j].wi].timer = 0,
                      ![ccalls[j].wi].mu = Free]
    /\ ccalls' = [ccalls EXCEPT ![j].pc = "ret", ![j].ret = "fsnotify", ![j].effect = TRUE]
    /\ UNCHANGED <<rev, fsn, timers, mons, wcalls, run, evs, sinceEv, burst, writes>>
    /\ UNCHANGED <<argVars, depVars, cmdVars>>

\* [part_003:151] part_003: close(w.done)
CloseDone(j) ==
    /\ Alive
    /\ rev = "part_003"
    /\ ccalls[j].pc = "body"
    /\ closeDone(j)
    /\ ccalls' = [ccalls EXCEPT ![j].pc = "mark"]
    /\ UNCHANGED <<rev, w, fsn, timers, mons, wcalls, run, evs, sinceEv, burst, writes>>
    /\ UNCHANGED <<argVars, depVars, cmdVars>>

\* [part_003:152-153] part_003: w.closed = true; w.watcher = nil
CloseMark(j) ==
    /\ Alive
    /\ rev = "part_003"
    /\ ccalls[j].pc = "mark"
    /\ w' = [w EXCEPT ![ccalls[j].wi].closed = TRUE, ![ccalls[j].wi].watcher = 0]
    /\ ccalls' = [ccalls EXCEPT ![j].pc = "fsclose"]
    /\ UNCHANGED <<rev, fsn, chans, timers, mons, wcalls, run, prog, evs, sinceEv, burst, writes>>
    /\ UNCHANGED <<argVars, depVars, cmdVars>>

\* [part_003:155, 137] part_003: tw.Close(), whose result Close returns; the lock is
\* released.
CloseTw(j) ==
    /\ Alive
    /\ rev = "part_003"
    /\ ccalls[j].pc = "fsclose"
    /\ fsn' = [fsn EXCEPT ![ccalls[j].tw].closeCalled = TRUE]
    /\ w' = [w EXCEPT ![ccalls[j].wi].mu = Free]
    /\ ccalls' = [ccalls EXCEPT ![j].pc = "ret", ![j].ret = "fsnotify", ![j].effect = TRUE]
    /\ UNCHANGED <<rev, chans, timers, mons, wcalls, run, prog, evs, sinceEv, burst, writes>>
    /\ UNCHANGED <<argVars, depVars, cmdVars>>

\* fsnotify, after its Close was called: its goroutine closes Events and Errors.
FsChannelsClose(k) ==
    /\ Alive
    /\ fsn[k].closeCalled
    /\ ~fsn[k].chClosed
    /\ fsn' = [fsn EXCEPT ![k].chClosed = TRUE]
    /\ UNCHANGED <<rev, w, chans, timers, mons, wcalls, ccalls, run, prog, evs, sinceEv, burst, writes>>
    /\ UNCHANGED <<argVars, depVars, cmdVars>>

(* the callers of one watcher *)

\* A call of Watch on watcher i begins: its clients call Watch once.
CallWatch(i) ==
    /\ Alive
    /\ \A k \in 1..Len(wcalls) : wcalls[k].wi # i
    /\ wcalls' = Append(wcalls, [wi |-> i, pc |-> "check", ch |-> 0, ret |-> "none"])
    /\ UNCHANGED <<rev, w, fsn, chans, timers, mons, ccalls, run, prog, evs, sinceEv, burst, writes>>
    /\ UNCHANGED <<argVars, depVars, cmdVars>>

\* A call of Watch on watcher i has begun and has not returned.
InWatch(i) == \E k \in 1..Len(wcalls) : wcalls[k].wi = i /\ wcalls[k].pc # "ret"

\* A call of Close on watcher i as it begins: inWatch records whether a Watch call
\* on the watcher is executing then.
NewClose(i) ==
    [wi |-> i, pc |-> "lock", tw |-> 0, ret |-> "none", effect |-> FALSE,
     inWatch |-> InWatch(i)]

\* A call of Close on watcher i begins.
CallClose(i) ==
    /\ Alive
    /\ Cardinality({j \in 1..Len(ccalls) : ccalls[j].wi = i}) < MaxCloses
    /\ ccalls' = Append(ccalls, NewClose(i))
    /\ UNCHANGED <<rev, w, fsn, chans, timers, mons, wcalls, run, prog, evs, sinceEv, burst, writes>>
    /\ UNCHANGED <<argVars, depVars, cmdVars>>

\* One watcher made by NewWatcher, of either revision, and nothing called yet.
InitWatch ==
    /\ IdleArgs
    /\ IdleDep
    /\ IdleCmd
    /\ rev \in {"watch.go", "part_003"}
    /\ w = <<NewWatcher>>
    /\ fsn = <<>> /\ chans = <<>> /\ timers = <<>> /\ mons = <<>>
    /\ wcalls = <<>> /\ ccalls = <<>>
    /\ run = [pc |-> "idle", ch |-> 0, wi |-> 0, sig |-> "idle"]
    /\ prog = "running"
    /\ evs = <<0>>
    /\ sinceEv = Delay
    /\ burst = "none"
    /\ writes = <<>>

NextWatch ==
    \/ CallWatch(1)
    \/ CallClose(1)
    \/ \E k \in 1..Len(wcalls) : WatchCheck(k)
    \/ \E k \in 1..Len(wcalls) : WatchMakeDone(k)
    \/ \E k \in 1..Len(wcalls) : WatchNewWatcher(k)
    \/ \E k \in 1..Len(wcalls) : WatchGoMonitor(k)
    \/ \E k \in 1..Len(wcalls) : WatchRecv(k)
    \/ \E k \in 1..Len(wcalls) : WatchRecvClosed(k)
    \/ \E m \in 1..Len(mons) : monitorEval(m)
    \/ \E m \in 1..Len(mons) : monitorChannelClosed(m)
    \/ \E m \in 1..Len(mons) : monitorError(m)
    \/ \E m \in 1..Len(mons) : monitorEvent(m)
    \/ \E m \in 1..Len(mons) : monitorArm(m)
    \/ \E t \in 1..Len(timers) : TimerFires(t)
    \/ \E t \in 1..Len(timers) : processStopTimer(t)
    \/ \E t \in 1..Len(timers) : processEnd(t)
    \/ \E t \in 1..Len(timers) : processLocked(t)
    \/ \E t \in 1..Len(timers) : processEndLocked(t)
    \/ \E j \in 1..Len(ccalls) : CloseLock(j)
    \/ \E j \in 1..Len(ccalls) : CloseCheck(j)
    \/ \E j \in 1..Len(ccalls) : CloseFsWatcher(j)
    \/ \E j \in 1..Len(ccalls) : CloseDeferred(j)
    \/ \E j \in 1..Len(ccalls) : CloseDone(j)
    \/ \E j \in 1..Len(ccalls) : CloseMark(j)
    \/ \E j \in 1..Len(ccalls) : CloseTw(j)
    \/ \E k \in 1..Len(fsn) : FsChannelsClose(k)
    \/ Tick

SpecWatch == InitWatch /\ [][NextWatch]_vars

\* The steps of the program's goroutines, without what its clients do (call Watch,
\* call Close) and what the file system sends (an event, an error): of the Watch
\* calls, of the monitor loops, of the timers and their functions, of the Close calls,
\* of fsnotify's goroutine.
WatchSteps ==
    \/ \E k \in 1..Len(wcalls) : WatchCheck(k)
    \/ \E k \in 1..Len(wcalls) : WatchMakeDone(k)
    \/ \E k \in 1..Len(wcalls) : WatchNewWatcher(k)
    \/ \E k \in 1..Len(wcalls) : WatchGoMonitor(k)
    \/ \E k \in 1..Len(wcalls) : WatchRecv(k)
    \/ \E k \in 1..Len(wcalls) : WatchRecvClosed(k)

monitorSteps ==
    \/ \E m \in 1..Len(mons) : monitorEval(m)
    \/ \E m \in 1..Len(mons) : monitorChannelClosed(m)
    \/ \E m \in 1..Len(mons) : monitorArm(m)

TimerSteps ==
    \/ \E t \in 1..Len(timers) : TimerFires(t)
    \/ \E t \in 1..Len(timers) : processStopTimer(t)
    \/ \E t \in 1..Len(timers) : processEnd(t)
    \/ \E t \in 1..Len(timers) : processLocked(t)
    \/ \E t \in 1..Len(timers) : processEndLocked(t)
    \/ Tick

CloseSteps ==
    \/ \E j \in 1..Len(ccalls) : CloseLock(j)
    \/ \E j \in 1..Len(ccalls) : CloseCheck(j)
    \/ \E j \in 1..Len(ccalls) : CloseFsWatcher(j)
    \/ \E j \in 1..Len(ccalls) : CloseDeferred(j)
    \/ \E j \in 1..Len(ccalls) : CloseDone(j)
    \/ \E j \in 1..Len(ccalls) : CloseMark(j)
    \/ \E j \in 1..Len(ccalls) : CloseTw(j)

FsSteps == \E k \in 1..Len(fsn) : FsChannelsClose(k)

\* The Go scheduler runs every runnable goroutine, and time passes.
Fairness ==
    /\ WF_vars(WatchSteps)
    /\ WF_vars(monitorSteps)
    /\ WF_vars(TimerSteps)
    /\ WF_vars(CloseSteps)
    /\ WF_vars(FsSteps)

\* One watcher under fair scheduling.
SpecWatchFair == InitWatch /\ [][NextWatch]_vars /\ Fairness

----------------------------------------------------------------------------
(* one watcher whose clients call Watch again, in a tree where no file changes *)

\* The largest number of Watch calls the clients make on the watcher.
MaxWatches == 2

\* A call of Watch on watcher i begins, whatever the calls before it have done.
CallWatchAgain(i) ==
    /\ Alive
    /\ Cardinality({k \in 1..Len(wcalls) : wcalls[k].wi = i}) < MaxWatches
    /\ wcalls' = Append(wcalls, [wi |-> i, pc |-> "check", ch |-> 0, ret |-> "none"])
    /\ UNCHANGED <<rev, w, fsn, chans, timers, mons, ccalls, run, prog, evs, sinceEv, burst, writes>>
    /\ UNCHANGED <<argVars, depVars, cmdVars>>

\* One watcher made by NewWatcher, of either revision, and nothing called yet.
InitRewatch ==
    /\ IdleArgs
    /\ IdleDep
    /\ IdleCmd
    /\ rev \in {"watch.go", "part_003"}
    /\ w = <<NewWatcher>>
    /\ fsn = <<>> /\ chans = <<>> /\ timers = <<>> /\ mons = <<>>
    /\ wcalls = <<>> /\ ccalls = <<>>
    /\ run = [pc |-> "idle", ch |-> 0, wi |-> 0, sig |-> "idle"]
    /\ prog = "running"
    /\ evs = <<0>>
    /\ sinceEv = Delay
    /\ burst = "off"
    /\ writes = <<>>

NextRewatch ==
    \/ CallWatchAgain(1)
    \/ CallClose(1)
    \/ \E k \in 1..Len(wcalls) : WatchCheck(k)
    \/ \E k \in 1..Len(wcalls) : WatchMakeDone(k)
    \/ \E k \in 1..Len(wcalls) : WatchNewWatcher(k)
    \/ \E k \in 1..Len(wcalls) : WatchGoMonitor(k)
    \/ \E k \in 1..Len(wcalls) : WatchRecv(k)
    \/ \E k \in 1..Len(wcalls) : WatchRecvClosed(k)
    \/ \E m \in 1..Len(mons) : monitorEval(m)
    \/ \E m \in 1..Len(mons) : monitorChannelClosed(m)
    \/ \E m \in 1..Len(mons) : monitorError(m)
    \/ \E j \in 1..Len(ccalls) : CloseLock(j)
    \/ \E j \in 1..Len(ccalls) : CloseCheck(j)
    \/ \E j \in 1..Len(ccalls) : CloseFsWatcher(j)
    \/ \E j \in 1..Len(ccalls) : CloseDeferred(j)
    \/ \E j \in 1..Len(ccalls) : CloseDone(j)
    \/ \E j \in 1..Len(ccalls) : CloseMark(j)
    \/ \E j \in 1..Len(ccalls) : CloseTw(j)
    \/ \E k \in 1..Len(fsn) : FsChannelsClose(k)

SpecRewatch == InitRewatch /\ [][NextRewatch]_vars

----------------------------------------------------------------------------
(* the orchestrator: run and runOnce *)

\* The largest number of cycles (calls of runOnce) the main loop begins.
MaxCycles == 1

\* The commands processArgs hands to NewCommander: none, or one with fields.
RunCommands == {<<>>, <<97>>}

\* [main.go:87-107] run, before its first cycle: the commander is made, the signal
\* handler waits for a signal, and no watcher exists.
InitRun ==
    /\ IdleArgs
    /\ IdleDep
    /\ \E c \in RunCommands : NewCommander(c)
    /\ rev \in {"watch.go", "part_003"}
    /\ w = <<>> /\ evs = <<>>
    /\ fsn = <<>> /\ chans = <<>> /\ timers = <<>> /\ mons = <<>>
    /\ wcalls = <<>> /\ ccalls = <<>>
    /\ run = [pc |-> "new", ch |-> 0, wi |-> 0, sig |-> "waiting"]
    /\ prog = "running"
    /\ sinceEv = Delay
    /\ burst = "off"
    /\ writes = <<>>

\* [main.go:112-114] runOnce: watcher := NewWatcher(); go watcher.Watch(path)
RunNewWatcher ==
    /\ Alive
    /\ run.pc = "new"
    /\ Len(w) < MaxCycles
    /\ w' = Append(w, NewWatcher)
    /\ evs' = Append(evs, 0)
    /\ wcalls' = Append(wcalls, [wi |-> Len(w) + 1, pc |-> "check", ch |-> 0, ret |-> "none"])
    /\ run' = [run EXCEPT !.pc = "start", !.wi = Len(w) + 1, !.ch = 0]
    /\ UNCHANGED <<rev, fsn, chans, timers, mons, ccalls, prog, sinceEv, burst, writes>>
    /\ UNCHANGED <<argVars, depVars, cmdVars>>

\* [main.go:116] runOnce calls runner.Start()
RunStart ==
    /\ Alive
    /\ run.pc = "start"
    /\ BeginCall("main", "Start")
    /\ run' = [run EXCEPT !.pc = "starting"]
    /\ UNCHANGED <<command, cmd, cmu, procs, sent, lastDone>>
    /\ UNCHANGED <<rev, w, fsn, chans, timers, mons, wcalls, ccalls, prog, evs, sinceEv, burst, writes>>
    /\ UNCHANGED <<argVars, depVars>>

\* [main.go:116-118] Start has returned: Fatal (exit status 1) on an error.
RunStarted ==
    /\ Alive
    /\ run.pc = "starting"
    /\ EndCall("main")
    /\ IF call["main"].ret = "nil"
       THEN /\ run' = [run EXCEPT !.pc = "wait"]
            /\ prog' = prog
       ELSE /\ prog' = "exit 1"
            /\ run' = run
    /\ UNCHANGED <<command, cmd, cmu, procs, sent, startCalls, termCalls>>
    /\ UNCHANGED <<rev, w, fsn, chans, timers, mons, wcalls, ccalls, evs, sinceEv, burst, writes>>
    /\ UNCHANGED <<argVars, depVars>>

\* [main.go:120; watch.go:139-141] the main loop takes the channel Wait() returns, that
\* is w.done as it is now, and receives on it; a nil channel blocks it for ever.
RunWait ==
    /\ Alive
    /\ run.pc = "wait"
    /\ run' = [run EXCEPT !.pc = "recv", !.ch = w[run.wi].done]
    /\ UNCHANGED <<rev, w, fsn, chans, timers, mons, wcalls, ccalls, prog, evs, sinceEv, burst, writes>>
    /\ UNCHANGED <<argVars, depVars, cmdVars>>

\* [main.go:120-122] the main loop has received the completion: it calls
\* runner.Terminate().
RunTerminate ==
    /\ Alive
    /\ run.pc = "got"
    /\ BeginCall("main", "Terminate")
    /\ run' = [run EXCEPT !.pc = "terminating"]
    /\ UNCHANGED <<command, cmd, cmu, procs, sent, lastDone>>
    /\ UNCHANGED <<rev, w, fsn, chans, timers, mons, wcalls, ccalls, prog, evs, sinceEv, burst, writes>>
    /\ UNCHANGED <<argVars, depVars>>

\* [main.go:122-128, 114] Terminate has returned (an error is logged); runOnce returns,
\* and its deferred watcher.Close() begins.
RunTerminated ==
    /\ Alive
    /\ run.pc = "terminating"
    /\ EndCall("main")
    /\ ccalls' = Append(ccalls, NewClose(run.wi))
    /\ run' = [run EXCEPT !.pc = "closing"]
    /\ UNCHANGED <<command, cmd, cmu, procs, sent, startCalls, termCalls>>
    /\ UNCHANGED <<rev, w, fsn, chans, timers, mons, wcalls, prog, evs, sinceEv, burst, writes>>
    /\ UNCHANGED <<argVars, depVars>>

\* The loop goes on to the next cycle without waiting for watcher.Close() to return.
RunClosedEarly ==
    /\ Alive
    /\ run.pc = "closing"
    /\ run' = [run EXCEPT !.pc = "new"]
    /\ UNCHANGED <<rev, w, fsn, chans, timers, mons, wcalls, ccalls, prog, evs, sinceEv, burst, writes>>
    /\ UNCHANGED <<argVars, depVars, cmdVars>>

\* [main.go:104-106, 114] watcher.Close() has returned: the loop of run goes on to the
\* next cycle.
RunClosed ==
    /\ Alive
    /\ run.pc = "closing"
    /\ \E j \in 1..Len(ccalls) : ccalls[j].wi = run.wi /\ ccalls[j].pc = "ret"
    /\ run' = [run EXCEPT !.pc = "new"]
    /\ UNCHANGED <<rev, w, fsn, chans, timers, mons, wcalls, ccalls, prog, evs, sinceEv, burst, writes>>
    /\ UNCHANGED <<argVars, depVars, cmdVars>>

\* [main.go:95-98] an interrupt or SIGTERM arrives: the handler calls runner.Terminate().
SignalArrives ==
    /\ Alive
    /\ run.sig = "waiting"
    /\ BeginCall("sig", "Terminate")
    /\ run' = [run EXCEPT !.sig = "terminating"]
    /\ UNCHANGED <<command, cmd, cmu, procs, sent, lastDone>>
    /\ UNCHANGED <<rev, w, fsn, chans, timers, mons, wcalls, ccalls, prog, evs, sinceEv, burst, writes>>
    /\ UNCHANGED <<argVars, depVars>>

\* [main.go:98-101] the handler's Terminate has returned: Fatal on an error, else
\* os.Exit(0).
SignalExit ==
    /\ Alive
    /\ run.sig = "terminating"
    /\ EndCall("sig")
    /\ prog' = IF call["sig"].ret = "nil" THEN "exit 0" ELSE "exit 1"
    /\ UNCHANGED <<command, cmd, cmu, procs, sent, startCalls, termCalls>>
    /\ UNCHANGED <<rev, w, fsn, chans, timers, mons, wcalls, ccalls, run, evs, sinceEv, burst, writes>>
    /\ UNCHANGED <<argVars, depVars>>

NextRun ==
    \/ RunNewWatcher
    \/ RunStart
    \/ RunStarted
    \/ RunWait
    \/ RunTerminate
    \/ RunTerminated
    \/ RunClosed
    \/ SignalArrives
    \/ SignalExit
    \/ Alive /\ \E t \in Threads : Lock(t)
    \/ Alive /\ \E t \in Threads : StartEmpty(t)
    \/ Alive /\ \E t \in Threads : StartSpawn(t)
    \/ Alive /\ \E t \in Threads : TerminateNotRunning(t)
    \/ Alive /\ \E t \in Threads : TerminateSigterm(t)
    \/ Alive /\ \E t \in Threads : TerminateSleep(t)
    \/ Alive /\ \E t \in Threads : TerminateAfterSleep(t)
    \/ Alive /\ \E t \in Threads : forceKill(t)
    \/ Alive /\ ChildExits
    \/ \E k \in 1..Len(wcalls) : WatchCheck(k)
    \/ \E k \in 1..Len(wcalls) : WatchMakeDone(k)
    \/ \E k \in 1..Len(wcalls) : WatchNewWatcher(k)
    \/ \E k \in 1..Len(wcalls) : WatchGoMonitor(k)
    \/ \E k \in 1..Len(wcalls) : WatchRecv(k)
    \/ \E k \in 1..Len(wcalls) : WatchRecvClosed(k)
    \/ \E m \in 1..Len(mons) : monitorEval(m)
    \/ \E m \in 1..Len(mons) : monitorChannelClosed(m)
    \/ \E m \in 1..Len(mons) : monitorError(m)
    \/ \E m \in 1..Len(mons) : monitorEvent(m)
    \/ \E m \in 1..Len(mons) : monitorArm(m)
    \/ \E t \in 1..Len(timers) : TimerFires(t)
    \/ \E t \in 1..Len(timers) : processStopTimer(t)
    \/ \E t \in 1..Len(timers) : processEnd(t)
    \/ \E t \in 1..Len(timers) : processLocked(t)
    \/ \E t \in 1..Len(timers) : processEndLocked(t)
    \/ \E j \in 1..Len(ccalls) : CloseLock(j)
    \/ \E j \in 1..Len(ccalls) : CloseCheck(j)
    \/ \E j \in 1..Len(ccalls) : CloseFsWatcher(j)
    \/ \E j \in 1..Len(ccalls) : CloseDeferred(j)
    \/ \E j \in 1..Len(ccalls) : CloseDone(j)
    \/ \E j \in 1..Len(ccalls) : CloseMark(j)
    \/ \E j \in 1..Len(ccalls) : CloseTw(j)
    \/ \E k \in 1..Len(fsn) : FsChannelsClose(k)
    \/ Tick

SpecRun == InitRun /\ [][NextRun]_vars

(* the orchestrator over several cycles, when no signal arrives *)

\* The largest number of cycles the main loop begins here.
MaxRounds == 2

\* [main.go:112-114] runOnce: watcher := NewWatcher(); go watcher.Watch(path).  (The
\* watcher of each of these cycles gets one qualifying event at most.)
RunCycleWatcher ==
    /\ Alive
    /\ run.pc = "new"
    /\ Len(w) < MaxRounds
    /\ w' = Append(w, NewWatcher)
    /\ evs' = Append(evs, MaxEvents - 1)
    /\ wcalls' = Append(wcalls, [wi |-> Len(w) + 1, pc |-> "check", ch |-> 0, ret |-> "none"])
    /\ run' = [run EXCEPT !.pc = "start", !.wi = Len(w) + 1, !.ch = 0]
    /\ UNCHANGED <<rev, fsn, chans, timers, mons, ccalls, prog, sinceEv, burst, writes>>
    /\ UNCHANGED <<argVars, depVars, cmdVars>>

\* (Without the signal handler Terminate is only called after a Start that spawned the
\* child, so its branch for a commander that tracks nothing is left out.)
NextCycles ==
    \/ RunCycleWatcher
    \/ RunStart
    \/ RunStarted
    \/ RunWait
    \/ RunTerminate
    \/ RunTerminated
    \/ RunClosed
    \/ Alive /\ \E t \in Threads : Lock(t)
    \/ Alive /\ \E t \in Threads : StartEmpty(t)
    \/ Alive /\ \E t \in Threads : StartSpawn(t)
    \/ Alive /\ \E t \in Threads : TerminateSigterm(t)
    \/ Alive /\ \E t \in Threads : TerminateSleep(t)
    \/ Alive /\ \E t \in Threads : TerminateAfterSleep(t)
    \/ Alive /\ \E t \in Threads : forceKill(t)
    \/ Alive /\ ChildExits
    \/ \E k \in 1..Len(wcalls) : WatchCheck(k)
    \/ \E k \in 1..Len(wcalls) : WatchMakeDone(k)
    \/ \E k \in 1..Len(wcalls) : WatchNewWatcher(k)
    \/ \E k \in 1..Len(wcalls) : WatchGoMonitor(k)
    \/ \E k \in 1..Len(wcalls) : WatchRecv(k)
    \/ \E k \in 1..Len(wcalls) : WatchRecvClosed(k)
    \/ \E m \in 1..Len(mons) : monitorEval(m)
    \/ \E m \in 1..Len(mons) : monitorChannelClosed(m)
    \/ \E m \in 1..Len(mons) : monitorError(m)
    \/ \E m \in 1..Len(mons) : monitorEvent(m)
    \/ \E m \in 1..Len(mons) : monitorArm(m)
    \/ \E t \in 1..Len(timers) : TimerFires(t)
    \/ \E t \in 1..Len(timers) : processStopTimer(t)
    \/ \E t \in 1..Len(timers) : processEnd(t)
    \/ \E t \in 1..Len(timers) : processLocked(t)
    \/ \E t \in 1..Len(timers) : processEndLocked(t)
    \/ \E j \in 1..Len(ccalls) : CloseLock(j)
    \/ \E j \in 1..Len(ccalls) : CloseCheck(j)
    \/ \E j \in 1..Len(ccalls) : CloseFsWatcher(j)
    \/ \E j \in 1..Len(ccalls) : CloseDeferred(j)
    \/ \E j \in 1..Len(ccalls) : CloseDone(j)
    \/ \E j \in 1..Len(ccalls) : CloseMark(j)
    \/ \E j \in 1..Len(ccalls) : CloseTw(j)
    \/ \E k \in 1..Len(fsn) : FsChannelsClose(k)
    \/ Tick

SpecCycles == InitRun /\ [][NextCycles]_vars

----------------------------------------------------------------------------
(* the command line: processArgs *)

\* The largest number of positional arguments explored.
MaxArgs == 3

\* [main.go:22] defaultCommand = "go run ."
defaultCommand == <<103, 111, 32, 114, 117, 110, 32, 46>>

\* [main.go:137] "--"
Separator == <<45, 45>>

\* The arguments explored: "--", "d", "d/f", " d", "a", " ".
ArgTokens == {Separator, <<100>>, <<100, 47, 102>>, <<32, 100>>, <<97>>, <<32>>}

\* The argument lists explored: every list of at most MaxArgs of these.
ArgLists == UNION {[1..n -> ArgTokens] : n \in 0..MaxArgs}

\* What os.Getwd returns: the directory "/w", or an error.
GetwdResults == {[dir |-> <<47, 119>>, err |-> FALSE], [dir |-> <<>>, err |-> TRUE]}

\* [main.go:134-141] sepidx: the index of the first "--" from i on, 0 when there is none.
RECURSIVE sepidxFrom(_, _)
sepidxFrom(a, i) ==
    IF i > Len(a) THEN 0
    ELSE IF a[i] = Separator THEN i
    ELSE sepidxFrom(a, i + 1)

\* [main.go:143-146] args = append(args[:sepidx], args[sepidx+1:]...) when "--" was found.
removeSeparator(a) ==
    LET sepidx == sepidxFrom(a, 1)
    IN  IF sepidx = 0 THEN a
        ELSE SubSeq(a, 1, sepidx - 1) \o SubSeq(a, sepidx + 1, Len(a))

\* strings.TrimSpace(s), on an ASCII string.
RECURSIVE TrimLeft(_)
TrimLeft(s) == IF Len(s) > 0 /\ IsSpace(Head(s)) THEN TrimLeft(Tail(s)) ELSE s

RECURSIVE TrimRight(_)
TrimRight(s) ==
    IF Len(s) > 0 /\ IsSpace(s[Len(s)]) THEN TrimRight(SubSeq(s, 1, Len(s) - 1)) ELSE s

TrimSpace(s) == TrimRight(TrimLeft(s))

\* strings.Join(parts, " ")
RECURSIVE Join(_)
Join(parts) ==
    IF Len(parts) = 0 THEN <<>>
    ELSE IF Len(parts) = 1 THEN parts[1]
    ELSE parts[1] \o <<32>> \o Join(Tail(parts))

\* filepath.Dir(p) on a path without "." and ".." elements and without doubled
\* slashes: all of p before its last slash, "." when there is nothing before it,
\* "/" when p is directly under the root.
LastSlash(p) ==
    LET at == {i \in 1..Len(p) : p[i] = 47}
    IN  IF at = {} THEN 0 ELSE CHOOSE i \in at : \A j \in at : j <= i

Dir(p) ==
    LET i == LastSlash(p)
    IN  IF i = 0 THEN <<46>>
        ELSE IF i = 1 THEN <<47>>
        ELSE SubSeq(p, 1, i - 1)

\* [main.go:153-155] the arguments after the "--" is removed and each is trimmed.
trimmed(a) ==
    LET b == removeSeparator(a)
    IN  [i \in 1..Len(b) |-> TrimSpace(b[i])]

\* What os.Stat can say of the path argument: the empty path never exists.
StatResults(a) ==
    IF Len(trimmed(a)) > 0 /\ Len(trimmed(a)[1]) = 0
    THEN {"notexist"}
    ELSE {"dir", "file", "notexist", "error"}

\* [main.go:132-176] processArgs(args), where os.Getwd returns wd and os.Stat says st:
\* how it ends (Fatal is os.Exit(1), console.go:16-19; stat.IsDir() on the nil
\* FileInfo of a failed Stat panics) and what it returns.
processArgs(a, wd, st) ==
    LET t == trimmed(a)
        cmdline == IF Len(t) > 1 THEN Join(Tail(t)) ELSE defaultCommand
    IN  IF Len(t) < 1
        THEN IF wd.err
             THEN [end |-> "exit 1", path |-> <<>>, command |-> <<>>]
             ELSE [end |-> "return", path |-> wd.dir, command |-> <<>>]
        ELSE CASE st = "notexist" ->
                    [end |-> "exit 1", path |-> <<>>, command |-> <<>>]
               [] st = "error" ->
                    [end |-> "panic: nil pointer dereference", path |-> <<>>, command |-> <<>>]
               [] st = "file" ->
                    [end |-> "return", path |-> Dir(t[1]), command |-> cmdline]
               [] st = "dir" ->
                    [end |-> "return", path |-> t[1], command |-> cmdline]

\* [main.go:91-92] path, command := processArgs(args); runner := NewCommander(path, command)
runProcessArgs ==
    /\ argpc = "args"
    /\ Alive
    /\ LET r == processArgs(args, getwd, stat)
       IN  /\ path' = r.path
           /\ command' = r.command
           /\ prog' = IF r.end = "return" THEN prog ELSE r.end
    /\ argpc' = "done"
    /\ UNCHANGED <<args, getwd, stat, depVars>>
    /\ UNCHANGED <<cmd, cmu, procs, sent, call, startCalls, termCalls, lastDone>>
    /\ UNCHANGED <<rev, w, fsn, chans, timers, mons, wcalls, ccalls, run, evs, sinceEv, burst, writes>>

InitArgs ==
    /\ IdleDep
    /\ IdleCmd
    /\ IdleWatch
    /\ args \in ArgLists
    /\ getwd \in GetwdResults
    /\ stat \in StatResults(args)
    /\ path = <<>>
    /\ argpc = "args"

NextArgs == runProcessArgs

SpecArgs == InitArgs /\ [][NextArgs]_vars

----------------------------------------------------------------------------
(* Claims about the watcher *)

\* C2: in a watch session without Close, as long as every qualifying event came
\* strictly less than the debounce delay after the one before, at most one completion
\* has been written to the completion channel, and each one was written no earlier
\* than one full delay after the last qualifying event received.
C2_OneCompletionAfterFullDelay ==
    (ccalls = <<>> /\ burst = "ok") =>
        /\ Len(writes) <= 1
        /\ \A n \in 1..Len(writes) : writes[n].since >= Delay

\* A Close call that went past the test of w.watcher: it stops the timer, closes the
\* completion channel and the fsnotify watcher.
Effective(j) == ccalls[j].pc \in {"body", "deferred", "mark", "fsclose"} \/ ccalls[j].effect

\* C10: with one Watch call and any Close calls on a watcher, no close of a closed or
\* nil completion channel happens (a channel is closed at most once), at most one Close
\* call does anything and every other one returns nil, and a Close that runs before
\* Watch has created the filesystem watcher (so also before the channel exists) returns
\* nil, having done nothing, without a panic.
C10_CloseInterleavings ==
    /\ prog \notin {"panic: close of closed channel", "panic: close of nil channel",
                    "panic: watcher should not be closed"}
    /\ Cardinality({j \in 1..Len(ccalls) : Effective(j)}) <= 1
    /\ \A j \in 1..Len(ccalls) :
          /\ (ccalls[j].pc = "ret" /\ ~ccalls[j].effect) => ccalls[j].ret = "nil"
          /\ fsn = <<>> => ~Effective(j)
          /\ Effective(j) => w[ccalls[j].wi].done # 0

\* Two Close calls have returned around a Watch call that made the completion channel:
\* one closed it, the other did nothing.
C10_Witness ==
    /\ Len(wcalls) = 1
    /\ Len(ccalls) = 2
    /\ \A j \in 1..2 : ccalls[j].pc = "ret"
    /\ Cardinality({j \in 1..2 : ccalls[j].effect}) = 1
    /\ Len(chans) = 1
    /\ chans[1].closed

\* C11: no send on a closed completion channel is ever attempted: once Close has closed
\* w.done, a call of end (by the monitor loop or by a timer's function) sends nothing,
\* and the program never panics with "send on closed channel".
C11_NoSendOnClosedChannel == prog # "panic: send on closed channel"

\* C12: a watcher is single-use: of the Watch calls made on it, at most one goes past
\* the test of w.watcher (every other one returns WatcherAlreadyRunningError), so at
\* most one completion channel and at most one fsnotify watcher are ever created.
C12_SingleUse ==
    /\ Cardinality({k \in 1..Len(wcalls) :
                       /\ wcalls[k].pc # "check"
                       /\ wcalls[k].ret # "WatcherAlreadyRunningError"}) <= 1
    /\ Len(chans) <= 1
    /\ Len(fsn) <= 1

\* C19: under fair scheduling, a Close call made while a Watch call on the watcher is
\* executing causes that Watch call to return and the monitor loop to end: once such a
\* Close has returned, eventually no Watch call is executing and every monitor loop
\* has ended (or the program has).
C19_CloseEndsWatch ==
    \A j \in 1..MaxCloses :
        (j <= Len(ccalls) /\ ccalls[j].inWatch /\ ccalls[j].pc = "ret")
            ~> (\/ ~Alive
                \/ /\ ~InWatch(1)
                   /\ \A m \in 1..Len(mons) : mons[m].pc = "done")

\* C20: a watcher has at most one pending timer (armed, neither stopped nor fired),
\* and it is the one w.timer refers to; every timer armed before another one of the
\* same watcher was is no longer pending, the later event having stopped it under the
\* lock before it armed its own.
C20_OnePendingTimer ==
    \A t \in 1..Len(timers) :
        timers[t].state = "armed" =>
            /\ w[timers[t].wi].timer = t
            /\ \A u \in 1..Len(timers) :
                  (u # t /\ timers[u].wi = timers[t].wi) => timers[u].state # "armed"
            /\ \A u \in 1..Len(timers) : timers[u].wi = timers[t].wi => u <= t

\* A second qualifying event came while the timer of the first was pending: that timer
\* is stopped and the new one is armed, and no Close has been called.
C20_Witness ==
    /\ Len(timers) = 2
    /\ timers[1].state = "stopped"
    /\ timers[2].state = "armed"
    /\ evs[1] = 2
    /\ ccalls = <<>>

\* C24: a step in which a monitor loop receives an error on Errors leaves the loop
\* running (it goes back to its select), writes no completion, and changes neither the
\* timers nor the watcher nor any Watch call; a monitor loop that has ended has found
\* Events or Errors closed; and a Watch call whose monitor loop was started has
\* returned nothing but nil.
C24_ErrorsDoNotEnd ==
    /\ [][\A m \in 1..Len(mons) :
            (mons[m].pc = "select" /\ mons'[m].got = "error") =>
                /\ mons'[m].pc = "eval"
                /\ writes' = writes
                /\ timers' = timers
                /\ w' = w
                /\ chans' = chans
                /\ wcalls' = wcalls
                /\ prog' = prog]_vars
    /\ [](\A m \in 1..Len(mons) :
            mons[m].pc = "done" => (mons[m].got = "closed" /\ fsn[mons[m].sel].chClosed))
    /\ [](\A k \in 1..Len(wcalls) :
            (\E m \in 1..Len(mons) : mons[m].wi = wcalls[k].wi) =>
                wcalls[k].ret \in {"none", "nil"})

\* A monitor loop has just received an error while a timer is pending, part of its
\* delay gone: the timer is still armed, nothing was written, Watch still waits.
C24_Witness ==
    /\ Len(mons) = 1
    /\ mons[1].pc = "eval"
    /\ mons[1].got = "error"
    /\ \E t \in 1..Len(timers) :
          timers[t].state = "armed" /\ timers[t].left < Delay /\ w[1].timer = t
    /\ writes = <<>>
    /\ Len(wcalls) = 1
    /\ wcalls[1].pc = "recv"

\* C25: a step in which a monitor loop receives an event with none of Create, Remove
\* and Write sends the loop back to its select and changes no timer (none is armed,
\* restarted or stopped), not the watcher's timer field, and writes no completion; and
\* as long as a watcher has received only such events (and errors) and Close was not
\* called, it has no timer and nothing was written to its completion channel.
C25_MetadataEventsIgnored ==
    /\ [][\A m \in 1..Len(mons) :
            (mons[m].pc = "select" /\ mons'[m].got = "metadata") =>
                /\ mons'[m].pc = "eval"
                /\ timers' = timers
                /\ w' = w
                /\ writes' = writes
                /\ wcalls' = wcalls
                /\ evs' = evs]_vars
    /\ [](\A i \in 1..Len(w) :
            (evs[i] = 0 /\ ccalls = <<>>) =>
                /\ w[i].timer = 0
                /\ \A t \in 1..Len(timers) : timers[t].wi # i
                /\ \A n \in 1..Len(writes) : writes[n].wi # i)

\* A monitor loop has just received a metadata-only event, the only kind its watcher
\* has received: there is no timer, nothing was written, Watch still waits.
C25_Witness ==
    /\ Len(mons) = 1
    /\ mons[1].pc = "eval"
    /\ mons[1].got = "metadata"
    /\ evs[1] = 0
    /\ timers = <<>>
    /\ w[1].timer = 0
    /\ writes = <<>>
    /\ Len(wcalls) = 1
    /\ wcalls[1].pc = "recv"

\* C27: the monitor loop never evaluates w.watcher.Events or w.watcher.Errors once
\* Close has set w.watcher to nil: the program never panics with a nil pointer
\* dereference.
C27_NoNilDereference == prog # "panic: nil pointer dereference"

\* C28: once a Close that closed the watcher has returned, the watcher's timer field
\* is nil and none of its timers is pending, also when the monitor loop had received a
\* qualifying event before the Close and handles it after.
C28_NoTimerAfterClose ==
    \A j \in 1..Len(ccalls) :
        (ccalls[j].pc = "ret" /\ ccalls[j].effect) =>
            /\ w[ccalls[j].wi].timer = 0
            /\ \A t \in 1..Len(timers) :
                  timers[t].wi = ccalls[j].wi => timers[t].state # "armed"

----------------------------------------------------------------------------
(* Claims about the orchestrator *)

\* Nothing of the debounce of watcher i is pending: no timer of it is armed, no callback
\* of it is running, and its monitor loops wait in their select (or are over).
DebounceOver(i) ==
    /\ \A t \in 1..Len(timers) :
          timers[t].wi = i => timers[t].state # "armed" /\ timers[t].cb \in {"none", "done"}
    /\ \A m \in 1..Len(mons) : mons[m].wi = i => mons[m].pc \in {"select", "done"}

\* C1: when the debounce timer of the main loop's watch session has expired and its
\* completion has been written to the completion channel, the restart is on its way:
\* it never happens that the completion went to the Watch goroutine, nothing of the
\* debounce is pending any more, and the main loop is still blocked in its receive on
\* Wait() (from where only another change could release it to call Terminate and Start).
C1_NoCompletionLost ==
    ~ \E n \in 1..Len(writes) :
         /\ Alive
         /\ run.sig = "waiting"
         /\ writes[n].wi = run.wi
         /\ writes[n].to = "watch"
         /\ run.pc = "recv"
         /\ run.ch = writes[n].ch
         /\ DebounceOver(run.wi)

\* C13: in one watch session a value is written to the completion channel at most
\* once: no completion channel receives two values.
C13_AtMostOneWrite ==
    \A c \in 1..Len(chans) :
        Cardinality({n \in 1..Len(writes) : writes[n].ch = c}) <= 1

\* The errors Watch returns when its setup fails.
SetupErrors == {"WatcherCreationError", "WatcherDepWalkerError", "PathAdditionError"}

\* C14: a setup error of the cycle's Watch call ends the program: it never happens
\* that Watch has returned a setup error while the program runs on with its main loop
\* blocked in the receive on Wait().
C14_SetupErrorFatal ==
    ~ \E k \in 1..Len(wcalls) :
         /\ Alive
         /\ run.sig = "waiting"
         /\ wcalls[k].wi = run.wi
         /\ wcalls[k].pc = "ret"
         /\ wcalls[k].ret \in SetupErrors
         /\ run.pc = "recv"
         /\ mons = <<>>

\* The Terminate calls the main loop has made: all of them but the signal handler's.
MainTerminates == termCalls - (IF run.sig = "terminating" THEN 1 ELSE 0)

\* C16: the Start and Terminate calls of the main loop alternate, beginning with Start,
\* and cycles do not overlap: while a Start of the main loop is in progress every
\* Terminate it called has returned; every child but the last started has had its
\* Terminate from the main loop; and when a cycle's watcher exists every earlier
\* watcher has been closed by a Close call that has returned, so that at most one
\* watcher holds an fsnotify watcher.
C16_CyclesAlternate ==
    /\ MainTerminates <= startCalls
    /\ startCalls <= MainTerminates + 1
    /\ call["main"].op = "Start" => (startCalls = MainTerminates + 1 /\ run.pc = "starting")
    /\ call["main"].op = "Terminate" => (startCalls = MainTerminates /\ run.pc = "terminating")
    /\ \A pid \in 1..(Len(procs) - 1) :
          \E n \in 1..Len(sent) : sent[n].pid = pid /\ sent[n].by = "main"
    /\ \A i \in 1..(Len(w) - 1) :
          /\ w[i].watcher = 0
          /\ \E j \in 1..Len(ccalls) :
                ccalls[j].wi = i /\ ccalls[j].pc = "ret" /\ ccalls[j].effect
    /\ Cardinality({i \in 1..Len(w) : w[i].watcher # 0}) <= 1

\* The second cycle has run to its end: two watchers, two Start calls and two Terminate
\* calls, and the second watcher's Close has begun.
C16_Witness ==
    /\ Len(w) = 2
    /\ startCalls = 2
    /\ MainTerminates = 2
    /\ Len(procs) = 2
    /\ run.pc = "closing"

\* C17: after an interrupt the program exits with status 0 whatever the handler's
\* Terminate returns: it never exits with status 1 on the return of a Terminate call.
\* (The other exit with status 1, Fatal in runOnce, is on the return of Start.)
C17_InterruptExitsZero ==
    ~ (/\ run.sig = "terminating"
       /\ prog = "exit 1"
       /\ lastDone.op = "Terminate")

----------------------------------------------------------------------------
(* Claims about the command line *)

\* C18: for every argument list, once processArgs has returned: when no path is
\* given the watch root is the current working directory, when the path names a
\* file the watch root is its containing directory, and when no command tokens
\* are given (the path given or not) the command is the default "go run .".
C18_ProcessArgsDefaults ==
    (argpc = "done" /\ Alive) =>
        LET t == trimmed(args)
        IN  /\ Len(t) = 0 => path = getwd.dir
            /\ (Len(t) > 0 /\ stat = "file") => path = Dir(t[1])
            /\ Len(t) <= 1 => command = defaultCommand

\* C26: whenever the main loop blocks receiving on what Wait returned, that channel
\* is the completion channel its cycle's Watch call created: it is never nil, whatever
\* the interleaving of the Watch goroutine with the main loop's Start and Wait.
C26_WaitsOnCreatedChannel ==
    run.pc = "recv" => (run.ch # 0 /\ run.ch = w[run.wi].done)

====
